---- MODULE Spec2Model ----
(***************************************************************************)
(* Alarm / reminder triggering and cross-device notification dispatch of   *)
(* MyPA: the server push dispatcher (pushNotification.ts), the server      *)
(* scheduler (alarmScheduler.ts), the occurrence evaluators of server and  *)
(* client, and the client trigger coordinator (global-alarm-handler.tsx).  *)
(*                                                                         *)
(* The specifications share the variables; each leaves the variables of    *)
(* the other parts unchanged:                                              *)
(*   SpecPush    sendPushNotification, one await at a time                 *)
(*   SpecSched   startAlarmScheduler / the 60 s timer / process restarts   *)
(*   SpecEval    the two evaluators applied to one alarm and one instant   *)
(*   SpecClient  GlobalAlarmHandler: poll, push message, dismiss, snooze   *)
(*   SpecTick    one run of checkAndSendAlarms, one await at a time        *)
(*   SpecMount   GlobalAlarmHandler across page reloads: mount effects     *)
(*   SpecReplay  the replay of a deferred event (URL, pendingAlarmTrigger) *)
(*   SpecRegistry savePushSubscription, one await at a time                *)
(*   SpecDevices two devices of one user: trigger, dismiss, refetch        *)
(*   SpecSignal  the signal of one presentation and its fallbacks          *)
(*   SpecGuard   dismissAlarm and snoozeAlarm called again on one popup    *)
(*   SpecCache   the offline cache: cache a list, read it back             *)
(*   SpecPurge   markDismissed and clearExpiredDismissals over the days    *)
(*   SpecDoses   one medicine with doses in adjacent minutes               *)
(*   SpecMirror  the live lists of the page and their offline mirror       *)
(*   SpecRules   one item of any kind at one instant, both evaluators      *)
(*   SpecFlags   the poll over rows with any isActive / enabled flags      *)
(*   SpecRing    presentations of different items, duration timers         *)
(***************************************************************************)
EXTENDS Integers, Sequences, FiniteSets, TLC

(***************************************************************************)
(* Bounds of the model                                                     *)
(***************************************************************************)
\* number of rows the push_subscriptions table can hold in the model
MaxRows == 3
\* number of dispatches (sendPushNotification calls) in one behaviour
MaxDispatches == 2

\* clock ticks per minute: the resolution of the model's clocks (a tick is
\* 60/TicksPerMinute seconds)
TicksPerMinute == 2
\* last tick of the server clock
SMaxTick == 7
\* number of times the scheduler is (re)started in one behaviour
MaxStarts == 2
\* ticks per minute of the client's clock
CTicksPerMinute == 1
\* last tick of the client's clock
CMaxTick == 6
\* number of snooze timers the client arms in one behaviour
MaxSnoozes == 1
\* number of push messages that reach the client in one behaviour
MaxPushes == 1
\* the longest a push message is under way, in ticks of the client's clock
MaxPushDelay == 1
\* last tick of the client's clock in the behaviours with page reloads
RMaxTick == 2
\* number of page reloads in one behaviour
MaxReloads == 1
\* number of launches from a notification in one behaviour
MaxLaunches == 1
\* number of renders that change the identity of the trigger callbacks
MaxRerenders == 1
\* last tick of the client's clock in the behaviours with a deferred event
ReplayMaxTick == 6
\* number of subscribe requests in one behaviour
MaxSaves == 3
\* number of rounds of a looping text-to-speech
MaxSpeaks == 2
\* number of dismissAlarm and snoozeAlarm calls on one popup
MaxCalls == 3
\* ids of the items of a cached list
MaxCacheIds == 2
\* length of a cached list
MaxCacheLen == 2
\* number of cache calls in one behaviour
MaxCacheCalls == 2
\* the last day of the local date of the device
MaxDay == 2
\* number of DismissedRecords in the store
MaxRecords == 2
\* ticks per minute of the clock of the doses
DoseTicksPerMinute == 2
\* last tick of the clock of the doses
DoseMaxTick == 5
\* number of push messages for the doses in one behaviour
MaxDosePushes == 1
\* number of successful fetches in one behaviour
MaxFetches == 2
\* entries of the time list of a medicine
MaxTimes == 2
\* number of items presented in one behaviour
MaxRingItems == 2
\* the duration of a presentation, in ticks
RingDuration == 2
\* last tick of the clock of the presentations
RingMaxTick == 4

Users == {"u1", "u2"}
RowIds == 1..MaxRows

(***************************************************************************)
(* Variables                                                               *)
(***************************************************************************)
VARIABLES
  \* ---- push dispatcher (pushNotification.ts) ----
  pushSubscriptions,  \* the push_subscriptions table: a set of rows
  pushPc,             \* position of sendPushNotification: idle, loop, returned, threw, hung
  pushUser,           \* its userId argument
  subscriptions,      \* the rows it loaded
  pendingSubs,        \* rows the for-loop has not reached yet
  success,            \* its counter success
  failed,             \* its counter failed
  outcomeOf,          \* history: the status each loaded row's delivery ended with
  regAtLoad,          \* history: the table when the rows were loaded
  dispatches,         \* history: number of calls so far
  \* ---- schedule store (tables alarms, medicines, meetings) ----
  alarmActive,        \* alarms.isActive, per alarm id
  medActive,          \* medicines.isActive, per medicine id
  meetingEnabled,     \* meetings.enabled, per meeting id
  \* ---- server scheduler (alarmScheduler.ts) ----
  sNow,               \* the server's clock, in ticks
  schedulerInterval,  \* null, or the tick the interval timer is due next
  starts,             \* history: number of starts that armed the timer
  redundantStart,     \* history: a start call of this run hit "Already running"
  sent,               \* history: due-events handed to the dispatcher, per occurrence
  sentRun,            \* history: the same, since the scheduler was last started
  \* ---- the evaluators applied to one alarm at one instant ----
  evAlarm,            \* the alarm row
  evInstant,          \* the instant: date and HH:mm
  evServer,           \* what the server evaluator said: unset, due, notdue
  evClient,           \* what the client poll evaluator said
  \* ---- client trigger coordinator (global-alarm-handler.tsx) ----
  cNow,               \* the device's clock, in ticks
  activeAlarms,       \* state activeAlarms: Set of alarm ids
  activeMeds,         \* state activeMeds
  activeMeetings,     \* state activeMeetings
  dismissedAlarms,    \* state dismissedAlarms: Map id -> "HH:mm"
  dismissedMeds,      \* state dismissedMeds
  dismissedMeetings,  \* state dismissedMeetings
  activeAlarmPopup,   \* state activeAlarmPopup: the popup shown, or null
  snoozeTimeout,      \* state snoozeTimeout: handle of a snooze timer, or null
  vibrateIntervalRef, \* the vibration interval is set
  isSpeakingRef,      \* the speech loop is on
  isProcessingRef,    \* a dismiss or snooze is in progress or has just ended
  lastTriggeredRef,   \* Map dedup key -> time of the last presentation
  audios,             \* the Audio elements that are playing
  timers,             \* pending snooze timers
  durationTimers,     \* pending duration timers of audio and vibration
  handlerPc,          \* idle, dismissing or snoozing (at the await), cooldown
  captured,           \* what the running handler closed over: popup, snoozeTimeout
  nextHandle,         \* the handle the next snooze timer gets
  pushes,             \* history: number of push messages received
  pollSaw,            \* history: when the poll last ran, and whether a popup was open
  lastArrival,        \* history: per key, the last due-event that reached triggerAlarm
  lastShown,          \* history: per key, the last due-event presented
  prevShown,          \* history: per key, the one presented before that
  pollRaised,         \* history: due-events the poll raised, per key and minute
  dismissedOnce,      \* history: keys whose popup the user dismissed
  snoozeFired,        \* history: the last snooze timer that fired, and its popup
  dismissedStore,     \* IndexedDB store "dismissed": the DismissedRecords
  \* ---- page life cycle of the client ----
  mountPc,            \* loading (the mount effect awaits IndexedDB) or loaded
  reloads,            \* history: number of page reloads
  launchUrl,          \* window.location.search: <<>> or <<the alarm_* parameters>>
  pendingAlarmTrigger, \* localStorage item: <<>> or <<[data, storedAt]>>
  replayTimers,       \* the setTimeout(..., 500) calls of the replay effect
  effectDue,          \* the replay effect runs after this render
  rerenders,          \* history: renders that gave triggerFromPushData a new identity
  launches,           \* history: launches from a notification
  replayShown,        \* history: presentations of the deferred event
  replayAges,         \* history: ages (ticks) of the stored records replayed
  \* ---- one run of checkAndSendAlarms (alarmScheduler.ts) ----
  tickPc,             \* idle, alarms, medicines, meetings, done, or in the
                      \* catch: caught (a dispatch rejected), caughtSelect
  tickQueue,          \* entries of the current loop not reached yet
  tickHanded,         \* history: entries sendPushNotification was called for
  tickDue,            \* history: the entries that were due when the run began
  \* ---- device registry (pushNotification.ts, savePushSubscription) ----
  registry,           \* the push_subscriptions table, rows with their endpoint
  nextRowId,          \* the serial the next inserted row gets
  savePc,             \* per request: idle, selected (select awaited), done
  saveArgs,           \* per request: userId and endpoint
  existing,           \* per request: the rows its select returned
  \* ---- two devices of one user ----
  devicePopup,        \* per device: key and isDateAlarm of activeAlarmPopup
  deviceDismissed,    \* per device: the keys in its dismissed maps and store
  deviceActiveAlarms, \* per device: the alarms its query returned as active
  devicePresented,    \* history, per device: the keys it has presented
  dismissedElsewhere, \* history: <<device, key>>: key was dismissed on the
                      \* other device while this device presented it
  \* ---- the signal of one presentation ----
  sigPc,              \* idle, audio (play() pending), native (speak to run),
                      \* web (utterance queued), done
  sigPopup,           \* activeAlarmPopup is set
  sigSpeaking,        \* isSpeakingRef.current
  ttsWorked,          \* the variable of speakTTS
  signals,            \* history: what the user could perceive
  speaks,             \* history: calls of speak
  sigCleared,         \* history: dismiss or snooze was called
  env,                \* what the platform offers, and item.loop
  \* ---- re-entrancy of dismissAlarm and snoozeAlarm ----
  gPopup,             \* activeAlarmPopup (type, id, isDateAlarm)
  gSnoozeTimeout,     \* snoozeTimeout
  gRendered,          \* popup and snoozeTimeout of the last render
  gProcessing,        \* isProcessingRef.current
  gInFlight,          \* the calls at their await, with what they closed over
  gResets,            \* pending 300 ms timers that reset the guard
  gTimers,            \* pending snooze timers
  gCalls,             \* history: calls of dismissAlarm and snoozeAlarm
  gBlocked,           \* history: calls the guard turned away
  gEffects,           \* history: records written, deactivations sent,
                      \* snooze timers set since the popup was presented
  gPresented,         \* history: the popup has been presented
  \* ---- offline cache (offlineStorage.ts) ----
  dbInstance,         \* the database is open
  cacheStores,        \* per kind: the object store, id -> item
  cacheCalls,         \* history: number of cache calls
  lastCacheCall,      \* history: the last cache call, and whether it was written
  lastCacheRead,      \* history: the read after it, and its result
  \* ---- the store of DismissedRecords and its purge ----
  purgeStore,         \* IndexedDB store "dismissed"
  purgeToday,         \* the local date of the device, a day number
  purgeBefore,        \* history: the store when clearExpiredDismissals began
  purgeRan,           \* history: clearExpiredDismissals was the last step
  \* ---- one medicine with doses in adjacent minutes ----
  doseNow,            \* the clock of the device, in half minutes
  doseOpen,           \* the page is open
  dosePolled,         \* the poll has run in this tick
  doseRef,            \* lastTriggeredRef.get('medicine-id'), or NoDose
  doseActive,         \* activeMeds.has(id)
  doseDismissed,      \* dismissedMeds.get(id): a minute, or NoDose
  dosePopup,          \* activeAlarmPopup is the medicine's
  doseShown,          \* history: the minutes a presentation began in
  doseDismissedAt,    \* history: the ticks dismissAlarm ran at
  dosePushes,         \* history: number of push messages received
  \* ---- the live lists of the page and their offline mirror ----
  mirrorMounted,      \* the component is mounted
  liveData,           \* per kind: the data of the query, Undefined or <<list>>
  cachedState,        \* per kind: cachedAlarms, cachedMedicines, cachedMeetings
  offlineStores,      \* per kind: the object store, key -> record
  pendingLoads,       \* the kinds whose getCachedX() has not resolved yet
  lastFetch,          \* history: kind and list of the last successful fetch
  polled,             \* history: per kind what the last poll saw and walked
  fetches,            \* history: number of successful fetches
  \* ---- one schedule item at one instant, under both evaluators ----
  ruleItem,           \* the row, or NoItem
  ruleInstant,        \* the instant: date and minute of the day
  ruleServer,         \* due-events of the scheduler for the row, or Unset
  ruleClient,         \* 1 if the poll finds the row due, 0 if not, or Unset
  \* ---- presentations of different items and their duration timers ----
  ringNow,            \* the clock of the device, in ticks
  ringPresented,      \* the items triggerAlarm has presented
  ringPopup,          \* the item of activeAlarmPopup, or NoRing
  ringVibration,      \* the item whose interval vibrateIntervalRef holds
  ringSpeech,         \* the item whose text is being spoken
  ringTimers,         \* the pending duration timers
  ringStops,          \* history: timer of `owner` stopped the sound of `stopped`
  ringClosed          \* history: the items dismissed or snoozed, and how

pushVars == <<pushSubscriptions, pushPc, pushUser, subscriptions, pendingSubs,
              success, failed, outcomeOf, regAtLoad, dispatches>>
storeVars == <<alarmActive, medActive, meetingEnabled>>
schedVars == <<sNow, schedulerInterval, starts, redundantStart, sent, sentRun>>
evalVars == <<evAlarm, evInstant, evServer, evClient>>
clientVars == <<cNow, activeAlarms, activeMeds, activeMeetings, dismissedAlarms,
                dismissedMeds, dismissedMeetings, activeAlarmPopup, snoozeTimeout,
                vibrateIntervalRef, isSpeakingRef, isProcessingRef, lastTriggeredRef,
                audios, timers, durationTimers, handlerPc, captured, nextHandle, pushes, pollSaw,
                lastArrival, lastShown, prevShown, pollRaised, dismissedOnce,
                snoozeFired, dismissedStore>>
mountVars == <<mountPc, reloads, launchUrl, pendingAlarmTrigger, replayTimers, effectDue,
               rerenders, launches, replayShown, replayAges>>
tickVars == <<tickPc, tickQueue, tickHanded, tickDue>>
registryVars == <<registry, nextRowId, savePc, saveArgs, existing>>
deviceVars == <<devicePopup, deviceDismissed, deviceActiveAlarms, devicePresented,
               dismissedElsewhere>>
signalVars == <<sigPc, sigPopup, sigSpeaking, ttsWorked, signals, speaks, sigCleared, env>>
guardVars == <<gPopup, gSnoozeTimeout, gRendered, gProcessing, gInFlight, gResets,
               gTimers, gCalls, gBlocked, gEffects, gPresented>>
cacheVars == <<dbInstance, cacheStores, cacheCalls, lastCacheCall, lastCacheRead>>
purgeVars == <<purgeStore, purgeToday, purgeBefore, purgeRan>>
doseVars == <<doseNow, doseOpen, dosePolled, doseRef, doseActive, doseDismissed, dosePopup,
              doseShown, doseDismissedAt, dosePushes>>
mirrorVars == <<mirrorMounted, liveData, cachedState, offlineStores, pendingLoads,
                lastFetch, polled, fetches>>
ruleVars == <<ruleItem, ruleInstant, ruleServer, ruleClient>>
ringVars == <<ringNow, ringPresented, ringPopup, ringVibration, ringSpeech, ringTimers,
              ringStops, ringClosed>>
\* the parts that have a specification of their own further down
restVars == <<tickVars, mountVars, registryVars, deviceVars, signalVars, guardVars, cacheVars, purgeVars, doseVars, mirrorVars, ruleVars, ringVars>>
vars == <<pushVars, storeVars, schedVars, evalVars, clientVars, restVars>>

\* what the actions of one part leave alone
notPush == <<storeVars, schedVars, evalVars, clientVars, restVars>>
notSched == <<pushVars, evalVars, clientVars, restVars>>
notEval == <<pushVars, storeVars, schedVars, clientVars, restVars>>
notClient == <<pushVars, schedVars, evalVars, medActive, meetingEnabled, restVars>>
notTick == <<pushVars, storeVars, schedVars, evalVars, clientVars, mountVars,
             registryVars, deviceVars, signalVars, guardVars, cacheVars, purgeVars,
             doseVars, mirrorVars, ruleVars, ringVars>>
\* the mount actions write the component's state and leave the rest alone
notMount == <<pushVars, storeVars, schedVars, evalVars, tickVars, registryVars,
              deviceVars, signalVars, guardVars, cacheVars, purgeVars, doseVars,
              mirrorVars, ruleVars, ringVars>>
notRegistry == <<pushVars, storeVars, schedVars, evalVars, clientVars, tickVars,
                 mountVars, deviceVars, signalVars, guardVars, cacheVars, purgeVars,
                 doseVars, mirrorVars, ruleVars, ringVars>>
notDevices == <<pushVars, medActive, meetingEnabled, schedVars, evalVars, clientVars,
                tickVars, mountVars, registryVars, signalVars, guardVars, cacheVars,
                purgeVars, doseVars, mirrorVars, ruleVars, ringVars>>
notSignal == <<pushVars, storeVars, schedVars, evalVars, clientVars, tickVars,
               mountVars, registryVars, deviceVars, guardVars, cacheVars, purgeVars,
               doseVars, mirrorVars, ruleVars, ringVars>>
notGuard == <<pushVars, storeVars, schedVars, evalVars, clientVars, tickVars,
              mountVars, registryVars, deviceVars, signalVars, cacheVars, purgeVars,
              doseVars, mirrorVars, ruleVars, ringVars>>
notCache == <<pushVars, storeVars, schedVars, evalVars, clientVars, tickVars,
              mountVars, registryVars, deviceVars, signalVars, guardVars, purgeVars,
              doseVars, mirrorVars, ruleVars, ringVars>>
notPurge == <<pushVars, storeVars, schedVars, evalVars, clientVars, tickVars,
              mountVars, registryVars, deviceVars, signalVars, guardVars, cacheVars,
              doseVars, mirrorVars, ruleVars, ringVars>>
notDoses == <<pushVars, storeVars, schedVars, evalVars, clientVars, tickVars,
              mountVars, registryVars, deviceVars, signalVars, guardVars, cacheVars,
              purgeVars, mirrorVars, ruleVars, ringVars>>
notMirror == <<pushVars, storeVars, schedVars, evalVars, clientVars, tickVars,
               mountVars, registryVars, deviceVars, signalVars, guardVars, cacheVars,
               purgeVars, doseVars, ruleVars, ringVars>>
notRules == <<pushVars, storeVars, schedVars, evalVars, clientVars, tickVars,
              mountVars, registryVars, deviceVars, signalVars, guardVars, cacheVars,
              purgeVars, doseVars, mirrorVars, ringVars>>
notRing == <<pushVars, storeVars, schedVars, evalVars, clientVars, tickVars, mountVars,
             registryVars, deviceVars, signalVars, guardVars, cacheVars, purgeVars,
             doseVars, mirrorVars, ruleVars>>

(***************************************************************************)
(* Push dispatcher: sendPushNotification                                   *)
(***************************************************************************)
\* HTTP status a delivery attempt ends with. 201: webPush.sendNotification
\* resolved. 404, 410: the push service says the subscription is gone.
\* 500: any other error status. 0: an error without statusCode (timeout,
\* network failure).
StatusCodes == {201, 404, 410, 500, 0}
NoAttempt == -1
\* the attempt was started and its promise has not settled
Hanging == -2

Row(i, u) == [id |-> i, userId |-> u, endpoint |-> i]

\* the tables the registry can start as: any subset of the row ids, each owned
\* by some user
InitialTables ==
  { {Row(i, f[i]) : i \in S} : S \in SUBSET RowIds, f \in [RowIds -> Users] }

\* mutant: every failed delivery prunes the row
IsGoneAnyFailure(statusCode) == statusCode # 201

\* error.statusCode === 410 || error.statusCode === 404
IsGone(statusCode) == statusCode = 410 \/ statusCode = 404

PushInit ==
  /\ pushSubscriptions \in InitialTables
  /\ pushPc = "idle"
  /\ pushUser = "u1"
  /\ subscriptions = {}
  /\ pendingSubs = {}
  /\ success = 0
  /\ failed = 0
  /\ outcomeOf = [i \in RowIds |-> NoAttempt]
  /\ regAtLoad = {}
  /\ dispatches = 0

\* lines 55-68: the select, the early return on no rows, the counters.
\* The select is awaited outside any try: a rejected select leaves the
\* function by exception.
SendLoad(userId) ==
  /\ pushPc = "idle"
  /\ dispatches < MaxDispatches
  /\ dispatches' = dispatches + 1
  /\ pushUser' = userId
  /\ outcomeOf' = [i \in RowIds |-> NoAttempt]
  /\ regAtLoad' = pushSubscriptions
  /\ success' = 0
  /\ failed' = 0
  /\ \/ /\ pushPc' = "threw"
        /\ subscriptions' = {}
        /\ pendingSubs' = {}
     \/ LET rows == {s \in pushSubscriptions : s.userId = userId} IN
        /\ subscriptions' = rows
        /\ pendingSubs' = rows
        /\ pushPc' = IF rows = {} THEN "returned" ELSE "loop"
  /\ UNCHANGED pushSubscriptions
  /\ UNCHANGED notPush

\* lines 70-104: one iteration of the for-loop. The order of the rows is the
\* order the database returned them in, which the query does not fix.
SendAttempt ==
  /\ pushPc = "loop"
  /\ \E sub \in pendingSubs, statusCode \in StatusCodes \cup {Hanging},
        deleteOk \in BOOLEAN :
       /\ pendingSubs' = pendingSubs \ {sub}
       /\ outcomeOf' = [outcomeOf EXCEPT ![sub.id] = statusCode]
       /\ IF statusCode = Hanging
          \* lines 75-91: sendNotification is awaited with no timeout option;
          \* while it does not settle the loop does not go on
          THEN /\ pushPc' = "hung"
               /\ UNCHANGED <<success, failed, pushSubscriptions>>
          ELSE IF statusCode = 201
          THEN /\ success' = success + 1
               /\ UNCHANGED <<failed, pushSubscriptions, pushPc>>
          ELSE /\ failed' = failed + 1
               /\ UNCHANGED success
               /\ IF IsGone(statusCode)
                  THEN IF deleteOk
                       THEN /\ pushSubscriptions' =
                                 {s \in pushSubscriptions : s.id # sub.id}
                            /\ UNCHANGED pushPc
                       \* the delete is awaited inside the catch block:
                       \* its rejection leaves the function
                       ELSE /\ pushPc' = "threw"
                            /\ UNCHANGED pushSubscriptions
                  ELSE UNCHANGED <<pushSubscriptions, pushPc>>
  /\ UNCHANGED <<pushUser, subscriptions, regAtLoad, dispatches>>
  /\ UNCHANGED notPush

\* lines 106-107
SendReturn ==
  /\ pushPc = "loop"
  /\ pendingSubs = {}
  /\ pushPc' = "returned"
  /\ UNCHANGED <<pushSubscriptions, pushUser, subscriptions, pendingSubs,
                 success, failed, outcomeOf, regAtLoad, dispatches>>
  /\ UNCHANGED notPush

\* the caller goes on (the scheduler's next due item, the next request)
SendDone ==
  /\ pushPc \in {"returned", "threw"}
  /\ pushPc' = "idle"
  /\ UNCHANGED <<pushSubscriptions, pushUser, subscriptions, pendingSubs,
                 success, failed, outcomeOf, regAtLoad, dispatches>>
  /\ UNCHANGED notPush

PushNext ==
  \/ \E u \in Users : SendLoad(u)
  \/ SendAttempt
  \/ SendReturn
  \/ SendDone

----------------------------------------------------------------------------
(***************************************************************************)
(* Schedule store and the occurrence evaluators                            *)
(***************************************************************************)
\* A stored time is the text "HH:mm" or "HH:mm:ss": hm is the minute of the
\* day it names, secs whether it carries a seconds part.
HHmm(n) == [hm |-> n, secs |-> FALSE]
HHmmss(n) == [hm |-> n, secs |-> TRUE]
\* time.substring(0, 5)
Substring5(t) == [hm |-> t.hm, secs |-> FALSE]

\* Calendar dates the model knows and their weekdays. "" is no date.
Dates == {"d1", "d2", "d8"}
DayOf(date) == IF date = "d2" THEN "Tue" ELSE "Mon"
\* the day the clocks of the scheduler and the client run in
Today == "d1"

\* A text is the sequence of its parts, so that a text built from a template
\* and a field differs from the field; <<>> is the empty or missing text.
\* a || b
OrElse(a, b) == IF a # <<>> THEN a ELSE b

\* rows of the tables alarms, medicines and meetings (the isActive / enabled
\* columns are the variables alarmActive, medActive, meetingEnabled)
Alarms ==
  { [id |-> 1, userId |-> "u1", time |-> HHmm(1), date |-> "", days |-> {"Mon"},
     type |-> "custom_voice", voiceUrl |-> "v1", title |-> <<"A1">>,
     textToSpeak |-> <<>>,
     duration |-> 60],
    [id |-> 2, userId |-> "u1", time |-> HHmm(2), date |-> "d1", days |-> {},
     type |-> "vibration", voiceUrl |-> "", title |-> <<"A2">>,
     textToSpeak |-> <<"say2">>,
     duration |-> 60] }
Medicines ==
  { [id |-> 1, userId |-> "u1", name |-> <<"M1">>, times |-> <<HHmm(0), HHmm(3)>>,
     textToSpeak |-> <<>>] }
Meetings ==
  { [id |-> 1, userId |-> "u1", title |-> <<"G1">>, date |-> "d1", time |-> HHmm(0),
     location |-> <<>>, textToSpeak |-> <<>>] }

AlarmIds == {a.id : a \in Alarms}
MedicineIds == {m.id : m \in Medicines}
MeetingIds == {g.id : g \in Meetings}

StoreInit ==
  /\ alarmActive \in [AlarmIds -> BOOLEAN]
  /\ medActive \in [MedicineIds -> BOOLEAN]
  /\ meetingEnabled \in [MeetingIds -> BOOLEAN]

\* alarmScheduler.ts lines 41-58: shouldTrigger of one active alarm.
\* time is "HH:mm", day a weekday name, date "yyyy-MM-dd".
ServerAlarmShouldTrigger(alarm, time, day, date) ==
  IF Substring5(alarm.time) = time
  THEN IF alarm.date # ""
       THEN alarm.date = date
       ELSE IF alarm.days # {}
            THEN day \in alarm.days
            ELSE TRUE
  ELSE FALSE

\* lines 80-83: the entries of medicine.times that are due
ServerMedicineDueEntries(medicine, time) ==
  {i \in 1..Len(medicine.times) : Substring5(medicine.times[i]) = time}

\* lines 105-106
ServerMeetingShouldTrigger(meeting, time, date) ==
  Substring5(meeting.time) = time /\ meeting.date = date

\* global-alarm-handler.tsx lines 557-564: the poll's decision for one alarm
ClientAlarmDue(alarm, isActive, currentTime, currentDay, currentDate) ==
  LET isTimeMatch == alarm.time = currentTime
      isDayMatch == currentDay \in alarm.days
      isDateMatch == alarm.date = currentDate
  IN  /\ isActive
      /\ isTimeMatch
      /\ (isDayMatch \/ isDateMatch \/ (alarm.days = {} /\ alarm.date = ""))

(***************************************************************************)
(* SpecEval: both evaluators applied to one alarm row at one instant       *)
(***************************************************************************)
AlarmShapes ==
  [time : {HHmm(0), HHmm(1), HHmmss(0), HHmmss(1)}, date : {"", "d1", "d2"},
   days : SUBSET {"Mon", "Tue"}, isActive : BOOLEAN]
Instants == [date : Dates, hm : {0, 1}]

EvalInit ==
  /\ evAlarm \in AlarmShapes
  /\ evInstant \in Instants
  /\ evServer = "unset"
  /\ evClient = "unset"

\* the scheduler selects the active alarms (lines 35-38) and evaluates each
EvalServer ==
  /\ evServer = "unset"
  /\ evServer' = IF /\ evAlarm.isActive
                    /\ ServerAlarmShouldTrigger(evAlarm, HHmm(evInstant.hm),
                                                DayOf(evInstant.date), evInstant.date)
                 THEN "due" ELSE "notdue"
  /\ UNCHANGED <<evAlarm, evInstant, evClient>>
  /\ UNCHANGED notEval

EvalClient ==
  /\ evClient = "unset"
  /\ evClient' = IF ClientAlarmDue(evAlarm, evAlarm.isActive, HHmm(evInstant.hm),
                                   DayOf(evInstant.date), evInstant.date)
                 THEN "due" ELSE "notdue"
  /\ UNCHANGED <<evAlarm, evInstant, evServer>>
  /\ UNCHANGED notEval

EvalNext == EvalServer \/ EvalClient

(***************************************************************************)
(* Server scheduler: startAlarmScheduler, the 60 s interval, restarts      *)
(***************************************************************************)
NoTimer == -1
Minutes == 0..(SMaxTick \div TicksPerMinute)
\* setInterval(checkAndSendAlarms, 60 * 1000), in ticks
SchedulerPeriod == TicksPerMinute

\* one entry per thing the scheduler can hand to the dispatcher in a minute:
\* an alarm, one entry of a medicine's time list, a meeting
ItemEntries ==
  {<<"alarm", a.id, 1>> : a \in Alarms}
  \cup UNION {{<<"medicine", m.id, i>> : i \in 1..Len(m.times)} : m \in Medicines}
  \cup {<<"meeting", g.id, 1>> : g \in Meetings}

\* lines 8-27: the instant the scheduler compares with
getCurrentTimeIST(now) ==
  [time |-> HHmm(now \div TicksPerMinute), day |-> DayOf(Today), date |-> Today]

\* lines 33-117: the entries one run of checkAndSendAlarms hands to
\* sendPushNotification
FiredBy(now) ==
  LET c == getCurrentTimeIST(now) IN
  {<<"alarm", a.id, 1>> :
      a \in {x \in Alarms : /\ alarmActive[x.id]
                            /\ ServerAlarmShouldTrigger(x, c.time, c.day, c.date)}}
  \cup UNION {{<<"medicine", m.id, i>> : i \in ServerMedicineDueEntries(m, c.time)} :
                 m \in {x \in Medicines : medActive[x.id]}}
  \cup {<<"meeting", g.id, 1>> :
      g \in {x \in Meetings : /\ meetingEnabled[x.id]
                              /\ ServerMeetingShouldTrigger(x, c.time, c.date)}}

Counted(count, fired, minute) ==
  [k \in DOMAIN count |->
     IF k[1] \in fired /\ k[2] = minute THEN count[k] + 1 ELSE count[k]]

ZeroCounts == [k \in ItemEntries \X Minutes |-> 0]

SchedInit ==
  /\ sNow = 0
  /\ schedulerInterval = NoTimer
  /\ starts = 0
  /\ redundantStart = FALSE
  /\ sent = ZeroCounts
  /\ sentRun = ZeroCounts

\* lines 29-121. No statement of it writes isActive or enabled.
checkAndSendAlarms ==
  /\ sent' = Counted(sent, FiredBy(sNow), sNow \div TicksPerMinute)
  /\ sentRun' = Counted(sentRun, FiredBy(sNow), sNow \div TicksPerMinute)
  /\ UNCHANGED storeVars

\* mutant: startAlarmScheduler without its "Already running" guard
StartAlarmSchedulerNoGuard ==
  /\ starts < MaxStarts
  /\ schedulerInterval' = sNow + SchedulerPeriod
  /\ starts' = starts + 1
  /\ checkAndSendAlarms
  /\ UNCHANGED <<sNow, redundantStart>>
  /\ UNCHANGED notSched

\* lines 123-136; called once when the process boots (routes.ts line 804)
StartAlarmScheduler ==
  /\ IF schedulerInterval # NoTimer
     THEN /\ redundantStart' = TRUE
          /\ UNCHANGED <<sNow, schedulerInterval, starts, sent, sentRun, storeVars>>
     ELSE /\ starts < MaxStarts
          /\ schedulerInterval' = sNow + SchedulerPeriod
          /\ starts' = starts + 1
          /\ checkAndSendAlarms
          /\ UNCHANGED <<sNow, redundantStart>>
  /\ UNCHANGED notSched

\* the interval timer fires, never before it is due, and is armed again
TimerWake ==
  /\ schedulerInterval # NoTimer
  /\ sNow >= schedulerInterval
  /\ schedulerInterval' = sNow + SchedulerPeriod
  /\ checkAndSendAlarms
  /\ UNCHANGED <<sNow, starts, redundantStart>>
  /\ UNCHANGED notSched

\* lines 138-144, or the process exits: the timer is gone
StopAlarmScheduler ==
  /\ schedulerInterval # NoTimer
  /\ schedulerInterval' = NoTimer
  /\ redundantStart' = FALSE
  /\ sentRun' = ZeroCounts
  /\ UNCHANGED <<sNow, starts, sent, storeVars>>
  /\ UNCHANGED notSched

\* time passes (the model's clock starts with the first boot)
SchedTick ==
  /\ starts > 0
  /\ sNow < SMaxTick
  /\ sNow' = sNow + 1
  /\ UNCHANGED <<schedulerInterval, starts, redundantStart, sent, sentRun, storeVars>>
  /\ UNCHANGED notSched

SchedNext ==
  \/ StartAlarmScheduler
  \/ TimerWake
  \/ StopAlarmScheduler
  \/ SchedTick

----------------------------------------------------------------------------
(***************************************************************************)
(* Client trigger coordinator: GlobalAlarmHandler                          *)
(***************************************************************************)
\* JavaScript Map: a function whose domain is the set of keys present
MapSet(m, k, v) == [x \in (DOMAIN m) \cup {k} |-> IF x = k THEN v ELSE m[x]]
MapDelete(m, k) == [x \in (DOMAIN m) \ {k} |-> m[x]]
EmptyMap == <<>>

CMinutes == 0..(CMaxTick \div CTicksPerMinute)
\* the dedup key `${type}-${id}`
CKeys ==
  {<<"alarm", i>> : i \in AlarmIds} \cup {<<"medicine", i>> : i \in MedicineIds}
  \cup {<<"meeting", i>> : i \in MeetingIds}

\* format(now, "HH:mm"), format(now, "EEE"), format(now, "yyyy-MM-dd")
currentTime == HHmm(cNow \div CTicksPerMinute)
currentDay == DayOf(Today)
currentDate == Today

\* seconds in ticks
Ticks(seconds) == (seconds * CTicksPerMinute) \div 60
\* line 289: the dedup window of 60000 ms
DedupWindow == Ticks(60)
\* line 853: the snooze button calls snoozeAlarm(5)
SnoozeMinutes == 5

NoPopup == [id |-> 0, type |-> "null"]
NoAudio == <<>>
NoHandle == 0
NoEvent == [t |-> -1, path |-> "none", shown |-> FALSE]

\* alarmScheduler.ts lines 63-69, 88-94, 110-116: the payloads the scheduler
\* hands to sendPushNotification; the service worker forwards them unchanged
AlarmPayload(alarm) ==
  [title |-> OrElse(alarm.title, <<"MyPA Alarm">>),
   body |-> OrElse(alarm.textToSpeak, alarm.title \o <<" - Time to wake up!">>),
   type |-> "alarm", id |-> alarm.id, textToSpeak |-> alarm.textToSpeak,
   alarmType |-> "", voiceUrl |-> ""]
MedicinePayload(medicine) ==
  [title |-> <<"Medicine: ">> \o medicine.name,
   body |-> OrElse(medicine.textToSpeak, <<"Time to take ">> \o medicine.name),
   type |-> "medicine", id |-> medicine.id, textToSpeak |-> medicine.textToSpeak,
   alarmType |-> "", voiceUrl |-> ""]
MeetingPayload(meeting) ==
  [title |-> <<"Meeting: ">> \o meeting.title,
   body |-> OrElse(meeting.textToSpeak,
                   meeting.title \o (IF meeting.location # <<>>
                                     THEN <<" at ">> \o meeting.location ELSE <<>>)),
   type |-> "meeting", id |-> meeting.id, textToSpeak |-> meeting.textToSpeak,
   alarmType |-> "", voiceUrl |-> ""]

\* the scheduler sends the push of an item in the minute the item is due in;
\* the message reaches the page at most MaxPushDelay ticks after that minute
InFlight(hhmm) ==
  /\ cNow >= hhmm.hm * CTicksPerMinute
  /\ cNow <= hhmm.hm * CTicksPerMinute + (CTicksPerMinute - 1) + MaxPushDelay
PushesInFlight ==
  {AlarmPayload(a) : a \in {x \in Alarms : InFlight(x.time)}}
  \cup {MedicinePayload(m) :
          m \in {x \in Medicines : \E i \in 1..Len(x.times) : InFlight(x.times[i])}}
  \cup {MeetingPayload(g) : g \in {x \in Meetings : InFlight(x.time)}}

\* the objects triggerAlarm is called with: a row of the list the poll walks
\* (a missing field is "" or <<>>, a missing duration 0) ...
AlarmItem(alarm) ==
  [id |-> alarm.id, type |-> alarm.type, title |-> alarm.title, name |-> <<>>,
   textToSpeak |-> alarm.textToSpeak, voiceUrl |-> alarm.voiceUrl,
   location |-> <<>>, duration |-> alarm.duration]
MedicineItem(med) ==
  [id |-> med.id, type |-> "", title |-> <<>>, name |-> med.name,
   textToSpeak |-> med.textToSpeak, voiceUrl |-> "", location |-> <<>>,
   duration |-> 0]
\* ... lines 622-630: meetingItem
MeetingItem(meeting) ==
  [id |-> meeting.id, type |-> "speaking", title |-> meeting.title, name |-> <<>>,
   textToSpeak |->
     OrElse(meeting.textToSpeak,
            <<"Meeting: ">> \o meeting.title
              \o (IF meeting.location # <<>>
                  THEN <<" at ">> \o meeting.location ELSE <<>>)),
   voiceUrl |-> "", location |-> meeting.location, duration |-> 30]

\* the part of the component's state that triggerAlarm and the poll write
ClientState ==
  [lastTriggeredRef |-> lastTriggeredRef, activeAlarmPopup |-> activeAlarmPopup,
   audios |-> audios, vibrateIntervalRef |-> vibrateIntervalRef,
   isSpeakingRef |-> isSpeakingRef, durationTimers |-> durationTimers,
   activeAlarms |-> activeAlarms, activeMeds |-> activeMeds,
   activeMeetings |-> activeMeetings, dismissedAlarms |-> dismissedAlarms,
   dismissedMeds |-> dismissedMeds, dismissedMeetings |-> dismissedMeetings,
   lastArrival |-> lastArrival, lastShown |-> lastShown, prevShown |-> prevShown,
   pollRaised |-> pollRaised]

Commit(s) ==
  /\ lastTriggeredRef' = s.lastTriggeredRef
  /\ activeAlarmPopup' = s.activeAlarmPopup
  /\ audios' = s.audios
  /\ vibrateIntervalRef' = s.vibrateIntervalRef
  /\ isSpeakingRef' = s.isSpeakingRef
  /\ durationTimers' = s.durationTimers
  /\ activeAlarms' = s.activeAlarms
  /\ activeMeds' = s.activeMeds
  /\ activeMeetings' = s.activeMeetings
  /\ dismissedAlarms' = s.dismissedAlarms
  /\ dismissedMeds' = s.dismissedMeds
  /\ dismissedMeetings' = s.dismissedMeetings
  /\ lastArrival' = s.lastArrival
  /\ lastShown' = s.lastShown
  /\ prevShown' = s.prevShown
  /\ pollRaised' = s.pollRaised

\* mutant: a dedup gate that lets everything through
isDedupBlockedNever(ref, type, id) == FALSE

\* lines 285-292: the test of isDedupBlocked (its write is in triggerAlarm
\* below)
isDedupBlocked(ref, type, id) ==
  /\ <<type, id>> \in DOMAIN ref
  /\ cNow - ref[<<type, id>>] < DedupWindow

\* lines 297-374. path (poll, push, snooze) is recorded in the history only.
triggerAlarm(s, item, type, isDateAlarm, path) ==
  LET key == <<type, item.id>>
      blocked == isDedupBlocked(s.lastTriggeredRef, type, item.id)
      duration == Ticks(IF item.duration # 0 THEN item.duration ELSE 30)
      message ==
        OrElse(item.textToSpeak,
          OrElse(item.title,
            IF type = "medicine" THEN <<"Time for medicine: ">> \o item.name
            ELSE IF type = "meeting"
                 THEN <<"Meeting: ">> \o OrElse(item.title, <<"undefined">>)
                        \o (IF item.location # <<>>
                            THEN <<" at ">> \o item.location ELSE <<>>)
                 ELSE <<"Alarm">>))
      popup ==
        [id |-> item.id, type |-> type,
         alarmType |-> IF item.type # "" THEN item.type ELSE "speaking",
         title |-> OrElse(item.title, OrElse(item.name, <<"Alarm">>)),
         message |-> message, voiceUrl |-> item.voiceUrl, audio |-> NoAudio,
         isDateAlarm |-> isDateAlarm]
      audio == <<type, item.id, cNow>>
      shown ==
        [s EXCEPT !.lastTriggeredRef = MapSet(@, key, cNow),
                  !.activeAlarmPopup = popup,
                  !.lastArrival[key] = [t |-> cNow, path |-> path, shown |-> TRUE],
                  !.prevShown[key] = s.lastShown[key],
                  !.lastShown[key] = [t |-> cNow, path |-> path, shown |-> TRUE]]
  IN  IF blocked
      THEN [s EXCEPT !.lastArrival[key] =
                        [t |-> cNow, path |-> path, shown |-> FALSE]]
      ELSE IF item.type = "vibration"
      THEN [shown EXCEPT
              !.vibrateIntervalRef = TRUE,
              !.durationTimers =
                 @ \cup {[what |-> "vibration", due |-> cNow + duration,
                          audio |-> NoAudio]}]
      ELSE IF item.type \in {"custom_voice", "music"} /\ item.voiceUrl # ""
      THEN [shown EXCEPT
              !.audios = @ \cup {audio},
              !.activeAlarmPopup = [popup EXCEPT !.audio = audio],
              !.durationTimers =
                 @ \cup {[what |-> "audio", due |-> cNow + duration,
                          audio |-> audio]}]
      ELSE IF item.textToSpeak # <<>> \/ type = "medicine" \/ item.type = "speaking"
      THEN [shown EXCEPT !.isSpeakingRef = TRUE]
      ELSE shown

\* lines 376-401
triggerFromPushData(s, data, path) ==
  LET isMedicine == data.type = "medicine"
      isMeeting == data.type = "meeting"
      medName == OrElse(data.title, <<"Medicine">>)
      defaultMedText == <<"Time for medicine: ">> \o medName
      item ==
        [id |-> data.id,
         title |-> OrElse(data.title,
                     IF isMeeting THEN <<"My Meetings">>
                     ELSE IF isMedicine THEN <<"Medicine Reminder">>
                     ELSE <<"Alarm">>),
         name |-> OrElse(data.title,
                     IF isMedicine THEN <<"Medicine">> ELSE <<"Alarm">>),
         textToSpeak |->
           OrElse(data.textToSpeak,
             OrElse(data.body,
               IF isMedicine THEN defaultMedText
               ELSE IF isMeeting THEN <<"Meeting: ">> \o data.title
               ELSE <<>>)),
         type |-> IF data.alarmType # "" THEN data.alarmType ELSE "speaking",
         voiceUrl |-> data.voiceUrl, location |-> <<>>, duration |-> 30]
      alarmKind == IF isMeeting THEN "meeting"
                   ELSE IF isMedicine THEN "medicine" ELSE "alarm"
  IN  triggerAlarm(s, item, alarmKind, FALSE, path)

\* mutant: the poll raises a due item whether or not it is in the active set
ShouldRaiseIgnoringActive(id, active, wasDismissedThisMinute) ==
  ~wasDismissedThisMinute

\* lines 565, 592 and 619: the test the poll makes before it raises a due item
ShouldRaise(id, active, wasDismissedThisMinute) ==
  id \notin active /\ ~wasDismissedThisMinute

\* lines 556-585: the poll's step for one alarm. The conditions read the
\* state of the last render, the updates are functional (prev => ...).
PollAlarm(s, alarm) ==
  LET isDateMatch == alarm.date = currentDate
      wasDismissedThisMinute ==
        /\ alarm.id \in DOMAIN dismissedAlarms
        /\ dismissedAlarms[alarm.id] = currentTime
      afterActive ==
        IF alarm.id \in activeAlarms /\ activeAlarmPopup = NoPopup
        THEN [s EXCEPT !.activeAlarms = @ \ {alarm.id}]
        ELSE s
  IN  IF ~alarmActive[alarm.id] THEN s
      ELSE IF ClientAlarmDue(alarm, TRUE, currentTime, currentDay, currentDate)
      THEN IF ShouldRaise(alarm.id, activeAlarms, wasDismissedThisMinute)
           THEN [triggerAlarm(s, AlarmItem(alarm), "alarm", isDateMatch, "poll")
                   EXCEPT !.activeAlarms = @ \cup {alarm.id},
                          !.pollRaised[<<"alarm", alarm.id>>,
                                       cNow \div CTicksPerMinute] = @ + 1]
           ELSE s
      ELSE IF /\ alarm.id \in DOMAIN dismissedAlarms
              /\ dismissedAlarms[alarm.id] # currentTime
           THEN [afterActive EXCEPT !.dismissedAlarms = MapDelete(@, alarm.id)]
           ELSE afterActive

\* lines 587-612: a medicine (no test of isActive)
PollMedicine(s, med) ==
  LET isTimeMatch == \E i \in 1..Len(med.times) : med.times[i] = currentTime
      wasDismissedThisMinute ==
        /\ med.id \in DOMAIN dismissedMeds
        /\ dismissedMeds[med.id] = currentTime
      afterActive ==
        IF med.id \in activeMeds /\ activeAlarmPopup = NoPopup
        THEN [s EXCEPT !.activeMeds = @ \ {med.id}]
        ELSE s
  IN  IF isTimeMatch
      THEN IF ShouldRaise(med.id, activeMeds, wasDismissedThisMinute)
           THEN [triggerAlarm(s, MedicineItem(med), "medicine", FALSE, "poll")
                   EXCEPT !.activeMeds = @ \cup {med.id},
                          !.pollRaised[<<"medicine", med.id>>,
                                       cNow \div CTicksPerMinute] = @ + 1]
           ELSE s
      ELSE IF /\ med.id \in DOMAIN dismissedMeds
              /\ dismissedMeds[med.id] # currentTime
           THEN [afterActive EXCEPT !.dismissedMeds = MapDelete(@, med.id)]
           ELSE afterActive

\* lines 614-650: a meeting
PollMeeting(s, meeting) ==
  LET isTimeMatch == meeting.time = currentTime
      isDateMatch == meeting.date = currentDate
      wasDismissedThisMinute ==
        /\ meeting.id \in DOMAIN dismissedMeetings
        /\ dismissedMeetings[meeting.id] = currentTime
      afterActive ==
        IF meeting.id \in activeMeetings /\ activeAlarmPopup = NoPopup
        THEN [s EXCEPT !.activeMeetings = @ \ {meeting.id}]
        ELSE s
  IN  IF ~meetingEnabled[meeting.id] THEN s
      ELSE IF isTimeMatch /\ isDateMatch
      THEN IF ShouldRaise(meeting.id, activeMeetings, wasDismissedThisMinute)
           THEN [triggerAlarm(s, MeetingItem(meeting), "meeting", FALSE, "poll")
                   EXCEPT !.activeMeetings = @ \cup {meeting.id},
                          !.pollRaised[<<"meeting", meeting.id>>,
                                       cNow \div CTicksPerMinute] = @ + 1]
           ELSE s
      ELSE IF /\ meeting.id \in DOMAIN dismissedMeetings
              /\ dismissedMeetings[meeting.id] # currentTime
           THEN [afterActive EXCEPT !.dismissedMeetings = MapDelete(@, meeting.id)]
           ELSE afterActive

\* forEach over a list, in the order of the ids
First(rows) == CHOOSE r \in rows : \A q \in rows : r.id <= q.id
RECURSIVE PollAlarms(_, _)
PollAlarms(s, rows) ==
  IF rows = {} THEN s
  ELSE PollAlarms(PollAlarm(s, First(rows)), rows \ {First(rows)})
RECURSIVE PollMedicines(_, _)
PollMedicines(s, rows) ==
  IF rows = {} THEN s
  ELSE PollMedicines(PollMedicine(s, First(rows)), rows \ {First(rows)})
RECURSIVE PollMeetings(_, _)
PollMeetings(s, rows) ==
  IF rows = {} THEN s
  ELSE PollMeetings(PollMeeting(s, First(rows)), rows \ {First(rows)})

NothingCaptured == [popup |-> NoPopup, snoozeTimeout |-> NoHandle]

ClientInit ==
  /\ cNow = 0
  /\ activeAlarms = {}
  /\ activeMeds = {}
  /\ activeMeetings = {}
  /\ dismissedAlarms = EmptyMap
  /\ dismissedMeds = EmptyMap
  /\ dismissedMeetings = EmptyMap
  /\ activeAlarmPopup = NoPopup
  /\ snoozeTimeout = NoHandle
  /\ vibrateIntervalRef = FALSE
  /\ isSpeakingRef = FALSE
  /\ isProcessingRef = FALSE
  /\ lastTriggeredRef = EmptyMap
  /\ audios = {}
  /\ timers = {}
  /\ durationTimers = {}
  /\ handlerPc = "idle"
  /\ captured = NothingCaptured
  /\ nextHandle = 1
  /\ pushes = 0
  /\ pollSaw = [at |-> -1, popup |-> FALSE]
  /\ lastArrival = [k \in CKeys |-> NoEvent]
  /\ lastShown = [k \in CKeys |-> NoEvent]
  /\ prevShown = [k \in CKeys |-> NoEvent]
  /\ pollRaised = [k \in CKeys \X CMinutes |-> 0]
  /\ dismissedOnce = {}
  /\ snoozeFired = [data |-> NoPopup, popup |-> NoPopup]
  /\ dismissedStore = {}

\* lines 550-651: one run of the interval callback of the poll
PollTick ==
  /\ Commit(PollMeetings(PollMedicines(PollAlarms(ClientState, Alarms), Medicines),
                         Meetings))
  /\ pollSaw' = [at |-> cNow, popup |-> activeAlarmPopup # NoPopup]
  /\ UNCHANGED <<pushes, cNow, snoozeTimeout, isProcessingRef, timers, handlerPc, captured,
                 nextHandle, dismissedOnce, dismissedStore, snoozeFired, alarmActive>>
  /\ UNCHANGED notClient

\* lines 660-664: the service worker forwards a push message
PushMessage ==
  /\ pushes < MaxPushes
  /\ pushes' = pushes + 1
  /\ \E data \in PushesInFlight :
        Commit(triggerFromPushData(ClientState, data, "push"))
  /\ UNCHANGED <<pollSaw, cNow, snoozeTimeout, isProcessingRef, timers, handlerPc, captured,
                 nextHandle, dismissedOnce, dismissedStore, snoozeFired, alarmActive>>
  /\ UNCHANGED notClient

\* lines 403-409: dismissAlarm up to its await; the closure holds the popup
\* and the snooze handle of the render the button was clicked in
DismissStart ==
  /\ activeAlarmPopup # NoPopup
  /\ ~isProcessingRef
  /\ isProcessingRef' = TRUE
  /\ isSpeakingRef' = FALSE
  /\ handlerPc' = "dismissing"
  /\ captured' = [popup |-> activeAlarmPopup, snoozeTimeout |-> snoozeTimeout]
  /\ UNCHANGED <<cNow, activeAlarms, activeMeds, activeMeetings, dismissedAlarms,
                 dismissedMeds, dismissedMeetings, activeAlarmPopup, snoozeTimeout,
                 vibrateIntervalRef, lastTriggeredRef, audios, timers,
                 durationTimers, nextHandle, pushes, pollSaw, lastArrival, lastShown,
                 prevShown, pollRaised, dismissedOnce, dismissedStore, snoozeFired, alarmActive>>
  /\ UNCHANGED notClient

\* lines 415-483: the rest of dismissAlarm
DismissFinish ==
  LET p == captured.popup IN
  /\ handlerPc = "dismissing"
  /\ vibrateIntervalRef' = FALSE
  /\ audios' = audios \ {p.audio}
  /\ activeAlarms' = IF p.type = "alarm" THEN activeAlarms \ {p.id} ELSE activeAlarms
  /\ dismissedAlarms' = IF p.type = "alarm"
                        THEN MapSet(dismissedAlarms, p.id, currentTime)
                        ELSE dismissedAlarms
  /\ alarmActive' = IF p.type = "alarm" /\ p.isDateAlarm /\ p.id \in AlarmIds
                    THEN [alarmActive EXCEPT ![p.id] = FALSE]
                    ELSE alarmActive
  /\ activeMeetings' = IF p.type = "meeting"
                       THEN activeMeetings \ {p.id} ELSE activeMeetings
  /\ dismissedMeetings' = IF p.type = "meeting"
                          THEN MapSet(dismissedMeetings, p.id, currentTime)
                          ELSE dismissedMeetings
  /\ activeMeds' = IF p.type \notin {"alarm", "meeting"}
                   THEN activeMeds \ {p.id} ELSE activeMeds
  /\ dismissedMeds' = IF p.type \notin {"alarm", "meeting"}
                      THEN MapSet(dismissedMeds, p.id, currentTime)
                      ELSE dismissedMeds
  /\ activeAlarmPopup' = NoPopup
  /\ IF captured.snoozeTimeout # NoHandle
     THEN /\ timers' = {t \in timers : t.handle # captured.snoozeTimeout}
          /\ snoozeTimeout' = NoHandle
     ELSE UNCHANGED <<timers, snoozeTimeout>>
  /\ handlerPc' = "cooldown"
  /\ captured' = NothingCaptured
  /\ dismissedOnce' = dismissedOnce \cup {<<p.type, p.id>>}
  \* markDismissed(type, id, currentTime), offlineStorage.ts lines 162-183
  /\ dismissedStore' = dismissedStore \cup
        {[type |-> p.type, id |-> p.id, time |-> currentTime, date |-> currentDate]}
  /\ UNCHANGED <<cNow, isSpeakingRef, isProcessingRef, lastTriggeredRef,
                 durationTimers, nextHandle, pushes, pollSaw, lastArrival, lastShown,
                 prevShown, pollRaised, snoozeFired>>
  /\ UNCHANGED notClient

\* lines 486-492: snoozeAlarm(5) up to its await
SnoozeStart ==
  /\ activeAlarmPopup # NoPopup
  /\ ~isProcessingRef
  /\ nextHandle <= MaxSnoozes
  /\ isProcessingRef' = TRUE
  /\ isSpeakingRef' = FALSE
  /\ handlerPc' = "snoozing"
  /\ captured' = [popup |-> activeAlarmPopup, snoozeTimeout |-> snoozeTimeout]
  /\ UNCHANGED <<cNow, activeAlarms, activeMeds, activeMeetings, dismissedAlarms,
                 dismissedMeds, dismissedMeetings, activeAlarmPopup, snoozeTimeout,
                 vibrateIntervalRef, lastTriggeredRef, audios, timers,
                 durationTimers, nextHandle, pushes, pollSaw, lastArrival, lastShown,
                 prevShown, pollRaised, dismissedOnce, dismissedStore, snoozeFired, alarmActive>>
  /\ UNCHANGED notClient

\* lines 498-543: the rest of snoozeAlarm; the timer keeps the popup it closed
\* over as alarmData
SnoozeFinish ==
  LET p == captured.popup IN
  /\ handlerPc = "snoozing"
  /\ vibrateIntervalRef' = FALSE
  /\ audios' = audios \ {p.audio}
  /\ activeAlarmPopup' = NoPopup
  /\ timers' = timers \cup {[handle |-> nextHandle,
                             due |-> cNow + Ticks(SnoozeMinutes * 60),
                             alarmData |-> p]}
  /\ snoozeTimeout' = nextHandle
  /\ nextHandle' = nextHandle + 1
  /\ handlerPc' = "cooldown"
  /\ captured' = NothingCaptured
  /\ UNCHANGED <<cNow, activeAlarms, activeMeds, activeMeetings, dismissedAlarms,
                 dismissedMeds, dismissedMeetings, isSpeakingRef, isProcessingRef,
                 lastTriggeredRef, durationTimers, pushes, pollSaw, lastArrival, lastShown,
                 prevShown, pollRaised, dismissedOnce, dismissedStore, snoozeFired, alarmActive>>
  /\ UNCHANGED notClient

\* lines 483 and 543: setTimeout(() => { isProcessingRef.current = false }, 300)
ProcessingReset ==
  /\ handlerPc = "cooldown"
  /\ isProcessingRef' = FALSE
  /\ handlerPc' = "idle"
  /\ UNCHANGED <<cNow, activeAlarms, activeMeds, activeMeetings, dismissedAlarms,
                 dismissedMeds, dismissedMeetings, activeAlarmPopup, snoozeTimeout,
                 vibrateIntervalRef, isSpeakingRef, lastTriggeredRef, audios, timers,
                 durationTimers, captured, nextHandle, pushes, pollSaw, lastArrival,
                 lastShown, prevShown, pollRaised, dismissedOnce, dismissedStore, snoozeFired,
                 alarmActive>>
  /\ UNCHANGED notClient

\* lines 519-540: the callback of a snooze timer
SnoozeTimerFire ==
  /\ \E timer \in timers :
       LET alarmData == timer.alarmData
           cleared == [ClientState EXCEPT
                         !.lastTriggeredRef =
                            MapDelete(@, <<alarmData.type, alarmData.id>>)]
           found == IF alarmData.type = "alarm"
                    THEN {AlarmItem(a) : a \in {x \in Alarms : x.id = alarmData.id}}
                    ELSE {MedicineItem(m) :
                            m \in {x \in Medicines : x.id = alarmData.id}}
           after ==
             IF found # {}
             THEN triggerAlarm(cleared, CHOOSE item \in found : TRUE,
                               alarmData.type, alarmData.isDateAlarm, "snooze")
             ELSE triggerFromPushData(cleared,
                    [id |-> alarmData.id, title |-> alarmData.title,
                     textToSpeak |-> alarmData.message, body |-> <<>>,
                     alarmType |-> alarmData.alarmType,
                     voiceUrl |-> alarmData.voiceUrl, type |-> alarmData.type],
                    "snooze")
       IN  /\ timer.due <= cNow
           /\ Commit(after)
           /\ timers' = timers \ {timer}
           /\ snoozeFired' = [data |-> alarmData, popup |-> after.activeAlarmPopup]
  /\ UNCHANGED <<cNow, snoozeTimeout, isProcessingRef, handlerPc, captured,
                 nextHandle, pushes, pollSaw, dismissedOnce, dismissedStore, alarmActive>>
  /\ UNCHANGED notClient

\* lines 334-339 and 358-363: the callback of a duration timer
DurationTimerFire ==
  /\ \E timer \in durationTimers :
       /\ timer.due <= cNow
       /\ durationTimers' = durationTimers \ {timer}
       /\ IF timer.what = "audio"
          THEN audios' = audios \ {timer.audio} /\ UNCHANGED vibrateIntervalRef
          ELSE vibrateIntervalRef' = FALSE /\ UNCHANGED audios
  /\ UNCHANGED <<cNow, activeAlarms, activeMeds, activeMeetings, dismissedAlarms,
                 dismissedMeds, dismissedMeetings, activeAlarmPopup, snoozeTimeout,
                 isSpeakingRef, isProcessingRef, lastTriggeredRef, timers, handlerPc,
                 captured, nextHandle, pushes, pollSaw, lastArrival, lastShown, prevShown,
                 pollRaised, dismissedOnce, dismissedStore, snoozeFired, alarmActive>>
  /\ UNCHANGED notClient

\* time passes on the device: the poll (every second) has run in the tick,
\* timers fire when they are due, and a handler's await and its 300 ms reset
\* are over within a tick
TimePasses ==
  /\ pollSaw.at = cNow
  /\ handlerPc = "idle"
  /\ \A timer \in timers : timer.due > cNow
  /\ \A timer \in durationTimers : timer.due > cNow
  /\ cNow' = cNow + 1
  /\ UNCHANGED <<activeAlarms, activeMeds, activeMeetings, dismissedAlarms,
                 dismissedMeds, dismissedMeetings, activeAlarmPopup, snoozeTimeout,
                 vibrateIntervalRef, isSpeakingRef, isProcessingRef, lastTriggeredRef,
                 audios, timers, durationTimers, handlerPc, captured, nextHandle,
                 pushes, pollSaw, lastArrival, lastShown, prevShown, pollRaised,
                 dismissedOnce, dismissedStore, snoozeFired, alarmActive>>
  /\ UNCHANGED notClient

ClientTick ==
  /\ cNow < CMaxTick
  /\ TimePasses

\* the page with the poll alone: no push message, no snooze
FlagsNext ==
  \/ PollTick
  \/ DismissStart
  \/ DismissFinish
  \/ ProcessingReset
  \/ DurationTimerFire
  \/ ClientTick

ClientNext ==
  \/ PollTick
  \/ PushMessage
  \/ DismissStart
  \/ DismissFinish
  \/ SnoozeStart
  \/ SnoozeFinish
  \/ ProcessingReset
  \/ SnoozeTimerFire
  \/ DurationTimerFire
  \/ ClientTick

----------------------------------------------------------------------------
(***************************************************************************)
(* One run of checkAndSendAlarms, one await at a time                      *)
(***************************************************************************)
\* the entries a loop of the run walks: the rows its select returns
Selected(phase) ==
  IF phase = "alarms"
  THEN {<<"alarm", a.id, 1>> : a \in {x \in Alarms : alarmActive[x.id]}}
  ELSE IF phase = "medicines"
  THEN UNION {{<<"medicine", m.id, i>> : i \in 1..Len(m.times)} :
                m \in {x \in Medicines : medActive[x.id]}}
  ELSE {<<"meeting", g.id, 1>> : g \in {x \in Meetings : meetingEnabled[x.id]}}

NextPhase(phase) ==
  IF phase = "idle" THEN "alarms"
  ELSE IF phase = "alarms" THEN "medicines"
  ELSE IF phase = "medicines" THEN "meetings"
  ELSE "done"

TickInit ==
  /\ tickPc = "idle"
  /\ tickQueue = {}
  /\ tickHanded = {}
  /\ tickDue = {}

\* lines 29-38: the run begins and awaits the select of the active alarms.
\* All of the body is inside one try (line 33); its catch (lines 118-120)
\* logs and ends the run.
TickBegin ==
  /\ tickPc = "idle"
  /\ tickDue' = FiredBy(sNow)
  /\ \/ /\ tickPc' = "alarms"
        /\ tickQueue' = Selected("alarms")
     \/ /\ tickPc' = "caughtSelect"
        /\ UNCHANGED tickQueue
  /\ UNCHANGED tickHanded
  /\ UNCHANGED notTick

\* lines 40-71, 79-96, 104-117: one iteration of a for-loop. A due entry is
\* handed to sendPushNotification, which is awaited and can reject.
TickItem ==
  /\ tickPc \in {"alarms", "medicines", "meetings"}
  /\ \E e \in tickQueue, dispatchOk \in BOOLEAN :
       /\ tickQueue' = tickQueue \ {e}
       /\ IF e \in FiredBy(sNow)
          THEN /\ tickHanded' = tickHanded \cup {e}
               /\ tickPc' = IF dispatchOk THEN tickPc ELSE "caught"
          ELSE /\ dispatchOk
               /\ UNCHANGED <<tickHanded, tickPc>>
  /\ UNCHANGED tickDue
  /\ UNCHANGED notTick

\* lines 74-77, 99-102, 121: a loop is over; the next select is awaited, or
\* the run returns
TickNextLoop ==
  /\ tickPc \in {"alarms", "medicines", "meetings"}
  /\ tickQueue = {}
  /\ \/ /\ tickPc' = NextPhase(tickPc)
        /\ tickQueue' = IF NextPhase(tickPc) = "done" THEN {}
                        ELSE Selected(NextPhase(tickPc))
     \/ /\ tickPc # "meetings"
        /\ tickPc' = "caughtSelect"
        /\ UNCHANGED tickQueue
  /\ UNCHANGED <<tickHanded, tickDue>>
  /\ UNCHANGED notTick

TickNext ==
  \/ TickBegin
  \/ TickItem
  \/ TickNextLoop

----------------------------------------------------------------------------
(***************************************************************************)
(* GlobalAlarmHandler across page reloads                                  *)
(***************************************************************************)
\* the alarm_* parameters a launch URL carries: those of the push payload of
\* alarm 1, and a URL that has the id only
UrlOf(payload) ==
  [alarm_id |-> payload.id, alarm_type |-> payload.type,
   alarm_sound_type |-> payload.alarmType, alarm_title |-> payload.title,
   alarm_text |-> payload.textToSpeak, alarm_body |-> payload.body,
   alarm_voice_url |-> payload.voiceUrl]
LaunchUrls ==
  {UrlOf(AlarmPayload(a)) : a \in {x \in Alarms : x.id = 1}}
  \cup {[alarm_id |-> 2, alarm_type |-> "", alarm_sound_type |-> "",
          alarm_title |-> <<>>, alarm_text |-> <<>>, alarm_body |-> <<>>,
          alarm_voice_url |-> ""]}

\* lines 680-694: the data object built from the parameters
UrlData(params) ==
  [id |-> params.alarm_id,
   type |-> IF params.alarm_type # "" THEN params.alarm_type ELSE "alarm",
   alarmType |-> IF params.alarm_sound_type # "" THEN params.alarm_sound_type
                 ELSE "speaking",
   title |-> OrElse(params.alarm_title, <<"Alarm">>),
   textToSpeak |-> params.alarm_text, body |-> params.alarm_body,
   voiceUrl |-> params.alarm_voice_url]

\* line 710: 5 * 60 * 1000 ms
ReplayValidity == Ticks(300)

\* offlineStorage.ts lines 204-235: getTodayDismissals().get(type). The
\* records of today come in the order of their keys, a later one of the same
\* id overwrites an earlier one.
TodayDismissals(type) ==
  LET recs == {r \in dismissedStore : r.type = type /\ r.date = currentDate}
      last(i) == CHOOSE r \in recs :
                   /\ r.id = i
                   /\ \A q \in recs : q.id = i => q.time.hm <= r.time.hm
  IN  [i \in {r.id : r \in recs} |-> last(i).time]

MountInit ==
  /\ mountPc = "loaded"
  /\ reloads = 0
  /\ launchUrl = <<>>
  /\ pendingAlarmTrigger = <<>>
  /\ replayTimers = {}
  /\ effectDue = TRUE
  /\ rerenders = 0
  /\ launches = 0
  /\ replayShown = 0
  /\ replayAges = {}

\* the page is loaded again: state and refs of the component are new, its
\* timers and audio elements are gone; IndexedDB and the server keep theirs
FreshPage ==
  /\ mountPc' = "loading"
  /\ replayTimers' = {}
  /\ effectDue' = TRUE
  /\ activeAlarms' = {}
  /\ activeMeds' = {}
  /\ activeMeetings' = {}
  /\ dismissedAlarms' = EmptyMap
  /\ dismissedMeds' = EmptyMap
  /\ dismissedMeetings' = EmptyMap
  /\ activeAlarmPopup' = NoPopup
  /\ snoozeTimeout' = NoHandle
  /\ vibrateIntervalRef' = FALSE
  /\ isSpeakingRef' = FALSE
  /\ isProcessingRef' = FALSE
  /\ lastTriggeredRef' = EmptyMap
  /\ audios' = {}
  /\ timers' = {}
  /\ durationTimers' = {}
  /\ handlerPc' = "idle"
  /\ captured' = NothingCaptured
  /\ UNCHANGED <<cNow, nextHandle, pushes, pollSaw, lastArrival, lastShown,
                 prevShown, pollRaised, dismissedOnce, snoozeFired, dismissedStore>>
  /\ UNCHANGED <<pendingAlarmTrigger, rerenders, replayShown, replayAges>>
  /\ UNCHANGED notMount

\* the user reloads the page: the location stays as it is
Reload ==
  /\ reloads < MaxReloads
  /\ reloads' = reloads + 1
  /\ FreshPage
  /\ UNCHANGED <<launchUrl, launches>>

\* the user taps a notification while the app is not running: the page is
\* opened with the alarm_* parameters in its URL
LaunchFromNotification ==
  /\ launches < MaxLaunches
  /\ launches' = launches + 1
  /\ FreshPage
  /\ \E params \in LaunchUrls : launchUrl' = <<params>>
  /\ UNCHANGED reloads

\* global-alarm-handler.tsx lines 96-112: the mount effect has awaited
\* clearExpiredDismissals and getTodayDismissals and sets the three maps
LoadDismissals ==
  /\ mountPc = "loading"
  /\ mountPc' = "loaded"
  /\ dismissedAlarms' = IF DOMAIN TodayDismissals("alarm") # {}
                        THEN TodayDismissals("alarm") ELSE dismissedAlarms
  /\ dismissedMeds' = IF DOMAIN TodayDismissals("medicine") # {}
                      THEN TodayDismissals("medicine") ELSE dismissedMeds
  /\ dismissedMeetings' = IF DOMAIN TodayDismissals("meeting") # {}
                          THEN TodayDismissals("meeting") ELSE dismissedMeetings
  /\ UNCHANGED <<cNow, activeAlarms, activeMeds, activeMeetings, activeAlarmPopup,
                 snoozeTimeout, vibrateIntervalRef, isSpeakingRef, isProcessingRef,
                 lastTriggeredRef, audios, timers, durationTimers, handlerPc,
                 captured, nextHandle, pushes, pollSaw, lastArrival, lastShown,
                 prevShown, pollRaised, dismissedOnce, snoozeFired, dismissedStore,
                 reloads>>
  /\ UNCHANGED <<launchUrl, pendingAlarmTrigger, replayTimers, effectDue, rerenders,
                 launches, replayShown, replayAges>>
  /\ UNCHANGED notMount

\* lines 673-718: the replay effect runs (after the mount, and after every
\* render that gave triggerFromPushData a new identity)
ReplayEffect ==
  /\ effectDue
  /\ effectDue' = FALSE
  /\ IF launchUrl # <<>>
     THEN LET data == UrlData(launchUrl[1]) IN
          /\ pendingAlarmTrigger' = <<[data |-> data, storedAt |-> cNow]>>
          /\ replayTimers' = replayTimers \cup {data}
          /\ launchUrl' = <<>>
          /\ UNCHANGED replayAges
     ELSE IF pendingAlarmTrigger # <<>>
     THEN LET data == pendingAlarmTrigger[1].data
              age == cNow - pendingAlarmTrigger[1].storedAt
          IN  /\ pendingAlarmTrigger' = <<>>
              /\ IF age < ReplayValidity
                 THEN /\ replayTimers' = replayTimers \cup {data}
                      /\ replayAges' = replayAges \cup {age}
                 ELSE UNCHANGED <<replayTimers, replayAges>>
              /\ UNCHANGED launchUrl
     ELSE UNCHANGED <<pendingAlarmTrigger, replayTimers, launchUrl, replayAges>>
  /\ UNCHANGED <<mountPc, reloads, rerenders, launches, replayShown>>
  /\ UNCHANGED clientVars
  /\ UNCHANGED notMount

\* lines 699, 711: the timeout of the replay effect calls triggerFromPushData
ReplayTimerFire ==
  /\ \E data \in replayTimers :
       LET s == triggerFromPushData(ClientState, data, "replay") IN
       /\ Commit(s)
       /\ replayTimers' = replayTimers \ {data}
       /\ replayShown' = IF s.lastTriggeredRef # lastTriggeredRef
                         THEN replayShown + 1 ELSE replayShown
  /\ UNCHANGED <<pollSaw, pushes, cNow, snoozeTimeout, isProcessingRef, timers,
                 handlerPc, captured, nextHandle, dismissedOnce, dismissedStore,
                 snoozeFired>>
  /\ UNCHANGED <<mountPc, reloads, launchUrl, pendingAlarmTrigger, effectDue,
                 rerenders, launches, replayAges>>
  /\ UNCHANGED notMount

\* lines 374, 401, 718: user or t change, triggerAlarm and triggerFromPushData
\* are new functions, and the effects that depend on them run again
ReplayRerender ==
  /\ rerenders < MaxRerenders
  /\ rerenders' = rerenders + 1
  /\ ~effectDue
  /\ effectDue' = TRUE
  /\ UNCHANGED <<mountPc, reloads, launchUrl, pendingAlarmTrigger, replayTimers,
                 launches, replayShown, replayAges>>
  /\ UNCHANGED clientVars
  /\ UNCHANGED notMount

\* time passes: the effect has run and its 500 ms timeouts have fired
ReplayTick ==
  /\ cNow < ReplayMaxTick
  /\ mountPc = "loaded"
  /\ ~effectDue
  /\ replayTimers = {}
  /\ TimePasses

ReplayNext ==
  \/ LaunchFromNotification
  \/ ReplayEffect
  \/ ReplayTimerFire
  \/ ReplayRerender
  \/ Reload
  \/ LoadDismissals
  \/ PollTick
  \/ ReplayTick

\* time passes; the load of the mount effect is over within a tick
MountTick ==
  /\ cNow < RMaxTick
  /\ mountPc = "loaded"
  /\ TimePasses

MountNext ==
  \/ PollTick
  \/ PushMessage
  \/ DismissStart
  \/ DismissFinish
  \/ ProcessingReset
  \/ DurationTimerFire
  \/ Reload
  \/ LoadDismissals
  \/ MountTick


----------------------------------------------------------------------------
(***************************************************************************)
(* Device registry: savePushSubscription / removePushSubscription          *)
(***************************************************************************)
Endpoints == {"e1", "e2"}
SaveCalls == 1..MaxSaves

\* CROSS_DEVICE_ALARM_SYSTEM.md lines 164-178: a row of push_subscriptions.
\* id is the serial primary key; endpoint is text, not null, and the table
\* declares no unique constraint on it.
RegistryRow(i, userId, endpoint, deviceName) ==
  [id |-> i, userId |-> userId, endpoint |-> endpoint, deviceName |-> deviceName]

RegistryInit ==
  /\ registry = {}
  /\ nextRowId = 1
  /\ savePc = [c \in SaveCalls |-> "idle"]
  /\ saveArgs = [c \in SaveCalls |-> [userId |-> "u1", endpoint |-> "e1"]]
  /\ existing = [c \in SaveCalls |-> {}]

\* lines 110-125, routes.ts lines 732-751: request c calls
\* savePushSubscription; the select by endpoint runs and is awaited
SaveSelect(c, userId, endpoint) ==
  /\ savePc[c] = "idle"
  /\ savePc' = [savePc EXCEPT ![c] = "selected"]
  /\ saveArgs' = [saveArgs EXCEPT ![c] = [userId |-> userId, endpoint |-> endpoint]]
  /\ existing' = [existing EXCEPT ![c] = {r \in registry : r.endpoint = endpoint}]
  /\ UNCHANGED <<registry, nextRowId>>
  /\ UNCHANGED notRegistry

\* lines 127-154: existing.length > 0 ? update ... where endpoint : insert.
\* The device info of request c is written as c.
SaveWrite(c) ==
  /\ savePc[c] = "selected"
  /\ savePc' = [savePc EXCEPT ![c] = "done"]
  /\ IF existing[c] # {}
     THEN /\ registry' =
               {IF r.endpoint = saveArgs[c].endpoint
                THEN [r EXCEPT !.userId = saveArgs[c].userId, !.deviceName = c]
                ELSE r : r \in registry}
          /\ UNCHANGED nextRowId
     ELSE /\ registry' = registry \cup
               {RegistryRow(nextRowId, saveArgs[c].userId, saveArgs[c].endpoint, c)}
          /\ nextRowId' = nextRowId + 1
  /\ UNCHANGED <<saveArgs, existing>>
  /\ UNCHANGED notRegistry

\* lines 157-160: removePushSubscription
RemovePushSubscription(endpoint) ==
  /\ \E r \in registry : r.endpoint = endpoint
  /\ registry' = {r \in registry : r.endpoint # endpoint}
  /\ UNCHANGED <<nextRowId, savePc, saveArgs, existing>>
  /\ UNCHANGED notRegistry

RegistryNext ==
  \/ \E c \in SaveCalls, u \in Users, e \in Endpoints : SaveSelect(c, u, e)
  \/ \E c \in SaveCalls : SaveWrite(c)
  \/ \E e \in Endpoints : RemovePushSubscription(e)


----------------------------------------------------------------------------
(***************************************************************************)
(* Two devices of one user, each running GlobalAlarmHandler                *)
(***************************************************************************)
Devices == {"d1", "d2"}
\* the occurrences the devices present: the one-shot alarm and the meeting
DeviceKeys == {<<"alarm", a.id>> : a \in {x \in Alarms : x.date # ""}}
              \cup {<<"meeting", g.id>> : g \in Meetings}
NoKey == <<"null", 0>>
NoDevicePopup == [key |-> NoKey, isDateAlarm |-> FALSE]

DevicesInit ==
  /\ devicePopup = [d \in Devices |-> NoDevicePopup]
  /\ deviceDismissed = [d \in Devices |-> {}]
  /\ deviceActiveAlarms = [d \in Devices |-> AlarmIds]
  /\ devicePresented = [d \in Devices |-> {}]
  /\ dismissedElsewhere = {}

\* lines 297-318: triggerAlarm on device d for a due occurrence, reached from
\* the poll (lines 556-575, 611-640: the item is active in the device's list
\* and was not dismissed there) or from a push message (lines 376-401)
DeviceTrigger(d, key, path) ==
  /\ key \notin devicePresented[d]
  /\ path = "poll" =>
       /\ key \notin deviceDismissed[d]
       /\ key[1] = "alarm" => key[2] \in deviceActiveAlarms[d]
  \* lines 567-568: the poll passes isDateAlarm = !!alarm.date; line 399: a push
  \* message passes false
  /\ devicePopup' = [devicePopup EXCEPT
                       ![d] = [key |-> key,
                               isDateAlarm |-> path = "poll" /\ key[1] = "alarm"]]
  /\ devicePresented' = [devicePresented EXCEPT ![d] = @ \cup {key}]
  /\ UNCHANGED <<deviceDismissed, deviceActiveAlarms, dismissedElsewhere,
                 alarmActive>>
  /\ UNCHANGED notDevices

\* lines 403-484: dismissAlarm on device d. The state it writes is the
\* device's own (popup, dismissed map, IndexedDB); the one request it sends
\* deactivates a date alarm on the server.
DeviceDismiss(d) ==
  /\ devicePopup[d] # NoDevicePopup
  /\ devicePopup' = [devicePopup EXCEPT ![d] = NoDevicePopup]
  /\ deviceDismissed' = [deviceDismissed EXCEPT ![d] = @ \cup {devicePopup[d].key}]
  /\ alarmActive' = IF devicePopup[d].isDateAlarm
                    THEN [alarmActive EXCEPT ![devicePopup[d].key[2]] = FALSE]
                    ELSE alarmActive
  /\ dismissedElsewhere' = dismissedElsewhere \cup
       {<<e, devicePopup[d].key>> :
          e \in {x \in Devices \ {d} : devicePopup[x].key = devicePopup[d].key}}
  /\ UNCHANGED <<deviceActiveAlarms, devicePresented>>
  /\ UNCHANGED notDevices

\* the alarms query of device d is fetched again; lines 556-586: the poll
\* skips an alarm that is not active, it clears no popup
DeviceRefetch(d) ==
  /\ deviceActiveAlarms[d] # {i \in AlarmIds : alarmActive[i]}
  /\ deviceActiveAlarms' =
       [deviceActiveAlarms EXCEPT ![d] = {i \in AlarmIds : alarmActive[i]}]
  /\ UNCHANGED <<devicePopup, deviceDismissed, devicePresented,
                 dismissedElsewhere, alarmActive>>
  /\ UNCHANGED notDevices

DevicesNext ==
  \/ \E d \in Devices, k \in DeviceKeys, p \in {"poll", "push"} : DeviceTrigger(d, k, p)
  \/ \E d \in Devices : DeviceDismiss(d)
  \/ \E d \in Devices : DeviceRefetch(d)

\* what runs without the user: the refetch of the queries
DevicesFair == \A d \in Devices : WF_vars(DeviceRefetch(d))


----------------------------------------------------------------------------
(***************************************************************************)
(* The signal of one presentation: audio, text-to-speech, generated tone   *)
(***************************************************************************)
SignalBranches == {"vibration", "audio", "tts"}
Platforms ==
  [vibrate : BOOLEAN, speechSynthesis : BOOLEAN, AudioContext : BOOLEAN,
   shouldLoop : BOOLEAN]

SignalInit ==
  /\ sigPc = "idle"
  /\ sigPopup = FALSE
  /\ sigSpeaking = FALSE
  /\ ttsWorked = FALSE
  /\ signals = {}
  /\ speaks = 0
  /\ sigCleared = FALSE
  /\ env = [vibrate |-> FALSE, speechSynthesis |-> FALSE, AudioContext |-> FALSE,
            shouldLoop |-> FALSE]

\* lines 164-207: playFallbackBeep; without AudioContext it only warns
playFallbackBeep(produced) ==
  IF env.AudioContext THEN produced \cup {"tone"} ELSE produced

\* lines 297-373: triggerAlarm opens the popup and starts the signal of the
\* item's branch. The audio branch ends at audio.play(), the speech branch
\* at the awaits of speakTTS (lines 209-211, 274-282). platform: what the
\* browser offers, and item.loop !== false.
SignalTrigger(branch, platform) ==
  /\ sigPc = "idle"
  /\ env' = platform
  /\ sigPopup' = TRUE
  /\ IF branch = "vibration"
     THEN /\ sigPc' = "done"
          /\ signals' = IF platform.vibrate THEN signals \cup {"vibration"} ELSE signals
          /\ UNCHANGED sigSpeaking
     ELSE IF branch = "audio"
     THEN /\ sigPc' = "audio"
          /\ UNCHANGED <<signals, sigSpeaking>>
     ELSE /\ sigPc' = "native"
          /\ sigSpeaking' = TRUE
          /\ UNCHANGED signals
  /\ UNCHANGED <<ttsWorked, speaks, sigCleared>>
  /\ UNCHANGED notSignal

\* lines 346-355: the promise of audio.play() settles; on rejection speakTTS
\* is called (line 210: isSpeakingRef.current = true)
AudioSettles(played) ==
  /\ sigPc = "audio"
  /\ IF played
     THEN /\ sigPc' = "done"
          /\ signals' = signals \cup {"audio"}
          /\ UNCHANGED sigSpeaking
     ELSE /\ sigPc' = "native"
          /\ sigSpeaking' = TRUE
          /\ UNCHANGED signals
  /\ UNCHANGED <<sigPopup, ttsWorked, speaks, sigCleared, env>>
  /\ UNCHANGED notSignal

\* lines 213-271: one call of speak. outcome: "spoken" (TextToSpeech.speak
\* resolved), or it rejected and the web API "throws" or takes the utterance
\* ("queued").
Speak(outcome) ==
  /\ sigPc = "native"
  /\ speaks' = speaks + 1
  /\ IF ~sigSpeaking
     THEN /\ sigPc' = "done"
          /\ UNCHANGED <<signals, ttsWorked>>
     ELSE IF outcome = "spoken"
     THEN /\ signals' = signals \cup {"nativeTts"}
          /\ ttsWorked' = TRUE
          /\ sigPc' = IF env.shouldLoop /\ speaks + 1 < MaxSpeaks
                      THEN "native" ELSE "done"
     ELSE IF ~env.speechSynthesis
     THEN /\ signals' = playFallbackBeep(signals)
          /\ sigPc' = "done"
          /\ UNCHANGED ttsWorked
     ELSE IF outcome = "throws"
     THEN /\ signals' = IF ~ttsWorked THEN playFallbackBeep(signals) ELSE signals
          /\ sigPc' = "done"
          /\ UNCHANGED ttsWorked
     ELSE \* line 258: speechSynthesis.speak(utterance) returned; line 259
          /\ ttsWorked' = TRUE
          /\ sigPc' = "web"
          /\ UNCHANGED signals
  /\ UNCHANGED <<sigPopup, sigSpeaking, sigCleared, env>>
  /\ UNCHANGED notSignal

\* lines 245-256: the utterance ends (onend) or fails (onerror)
UtteranceSettles(ended) ==
  /\ sigPc = "web"
  /\ IF ended
     THEN /\ signals' = signals \cup {"webTts"}
          /\ sigPc' = IF env.shouldLoop /\ sigSpeaking /\ speaks < MaxSpeaks
                      THEN "native" ELSE "done"
     ELSE /\ signals' = IF ~ttsWorked THEN playFallbackBeep(signals) ELSE signals
          /\ sigPc' = "done"
  /\ UNCHANGED <<sigPopup, sigSpeaking, ttsWorked, speaks, sigCleared, env>>
  /\ UNCHANGED notSignal

\* lines 403-484, 486-544: dismissAlarm or snoozeAlarm while the popup is
\* open: isSpeakingRef.current = false and setActiveAlarmPopup(null)
SignalClear ==
  /\ sigPopup
  /\ sigPopup' = FALSE
  /\ sigSpeaking' = FALSE
  /\ sigCleared' = TRUE
  /\ UNCHANGED <<sigPc, ttsWorked, signals, speaks, env>>
  /\ UNCHANGED notSignal

SignalNext ==
  \/ \E branch \in SignalBranches, platform \in Platforms : SignalTrigger(branch, platform)
  \/ \E played \in BOOLEAN : AudioSettles(played)
  \/ \E outcome \in {"spoken", "throws", "queued"} : Speak(outcome)
  \/ \E ended \in BOOLEAN : UtteranceSettles(ended)
  \/ SignalClear


----------------------------------------------------------------------------
(***************************************************************************)
(* Re-entrancy of dismissAlarm and snoozeAlarm on one popup                *)
(***************************************************************************)
\* the popups the poll raises (lines 567-568: isDateAlarm = !!alarm.date) and
\* those a push message raises (line 399: isDateAlarm = false)
GuardPopups ==
  {[type |-> "alarm", id |-> a.id, isDateAlarm |-> a.date # ""] : a \in Alarms}
  \cup {[type |-> "alarm", id |-> a.id, isDateAlarm |-> FALSE] : a \in Alarms}
  \cup {[type |-> "medicine", id |-> m.id, isDateAlarm |-> FALSE] : m \in Medicines}
  \cup {[type |-> "meeting", id |-> g.id, isDateAlarm |-> FALSE] : g \in Meetings}
NoGuardPopup == [type |-> "null", id |-> 0, isDateAlarm |-> FALSE]
NoEffects == [records |-> 0, deactivations |-> 0, snoozeTimers |-> 0]

GuardInit ==
  /\ gPopup = NoGuardPopup
  /\ gSnoozeTimeout = NoHandle
  /\ gRendered = [popup |-> NoGuardPopup, snoozeTimeout |-> NoHandle]
  /\ gProcessing = FALSE
  /\ gInFlight = {}
  /\ gResets = 0
  /\ gTimers = {}
  /\ gCalls = 0
  /\ gBlocked = 0
  /\ gEffects = NoEffects
  /\ gPresented = FALSE

\* mutant: no re-entrancy guard
GuardBlocksNever == FALSE

\* lines 404, 487: if (isProcessingRef.current) return
GuardBlocks == gProcessing

\* lines 308-318: triggerAlarm presents the popup
GuardPresent(p) ==
  /\ ~gPresented
  /\ gPresented' = TRUE
  /\ gPopup' = p
  /\ UNCHANGED <<gSnoozeTimeout, gRendered, gProcessing, gInFlight, gResets, gTimers,
                 gCalls, gBlocked, gEffects>>
  /\ UNCHANGED notGuard

\* React renders: the buttons and the handlers close over the current state
GuardRender ==
  /\ gRendered # [popup |-> gPopup, snoozeTimeout |-> gSnoozeTimeout]
  /\ gRendered' = [popup |-> gPopup, snoozeTimeout |-> gSnoozeTimeout]
  /\ UNCHANGED <<gPopup, gSnoozeTimeout, gProcessing, gInFlight, gResets, gTimers,
                 gCalls, gBlocked, gEffects, gPresented>>
  /\ UNCHANGED notGuard

\* lines 403-413, 486-496: a button of the rendered popup calls dismissAlarm
\* or snoozeAlarm(5); the call runs up to its await
HandlerCall(kind) ==
  /\ gRendered.popup # NoGuardPopup
  /\ gCalls < MaxCalls
  /\ gCalls' = gCalls + 1
  /\ IF GuardBlocks
     THEN /\ gBlocked' = gBlocked + 1
          /\ UNCHANGED <<gProcessing, gInFlight>>
     ELSE /\ gProcessing' = TRUE
          /\ gInFlight' = gInFlight \cup
               {[n |-> gCalls + 1, kind |-> kind, popup |-> gRendered.popup,
                 snoozeTimeout |-> gRendered.snoozeTimeout]}
          /\ UNCHANGED gBlocked
  /\ UNCHANGED <<gPopup, gSnoozeTimeout, gRendered, gResets, gTimers, gEffects,
                 gPresented>>
  /\ UNCHANGED notGuard

\* lines 415-483, 498-543: the rest of the call. dismissAlarm: markDismissed,
\* updateAlarm.mutate for a date alarm, the popup and the snooze timer
\* cleared; snoozeAlarm: the popup cleared and a timer set. Both: the 300 ms
\* timer that resets the guard.
HandlerFinish ==
  \E call \in gInFlight :
    /\ gInFlight' = gInFlight \ {call}
    /\ gPopup' = NoGuardPopup
    /\ gResets' = gResets + 1
    /\ IF call.kind = "dismiss"
       THEN /\ gEffects' =
                 [gEffects EXCEPT
                    !.records = @ + 1,
                    !.deactivations =
                       IF call.popup.type = "alarm" /\ call.popup.isDateAlarm
                       THEN @ + 1 ELSE @]
            /\ IF call.snoozeTimeout # NoHandle
               THEN /\ gTimers' = {t \in gTimers : t.handle # call.snoozeTimeout}
                    /\ gSnoozeTimeout' = NoHandle
               ELSE UNCHANGED <<gTimers, gSnoozeTimeout>>
       ELSE /\ gEffects' = [gEffects EXCEPT !.snoozeTimers = @ + 1]
            /\ gTimers' = gTimers \cup {[handle |-> call.n, alarmData |-> call.popup]}
            /\ gSnoozeTimeout' = call.n
    /\ UNCHANGED <<gRendered, gProcessing, gCalls, gBlocked, gPresented>>
    /\ UNCHANGED notGuard

\* lines 483, 543: the timer resets the guard 300 ms after the call ended;
\* React has rendered the state the call set long before
GuardReset ==
  /\ gResets > 0
  /\ gRendered = [popup |-> gPopup, snoozeTimeout |-> gSnoozeTimeout]
  /\ gResets' = gResets - 1
  /\ gProcessing' = FALSE
  /\ UNCHANGED <<gPopup, gSnoozeTimeout, gRendered, gInFlight, gTimers, gCalls,
                 gBlocked, gEffects, gPresented>>
  /\ UNCHANGED notGuard

\* lines 517-538: the snooze timer fires, minutes later, and presents the
\* popup it closed over again: a new presentation
GuardSnoozeFire ==
  /\ gInFlight = {}
  /\ gResets = 0
  /\ \E t \in gTimers :
       /\ gTimers' = gTimers \ {t}
       /\ gPopup' = t.alarmData
  /\ gEffects' = NoEffects
  /\ UNCHANGED <<gSnoozeTimeout, gRendered, gProcessing, gInFlight, gResets, gCalls,
                 gBlocked, gPresented>>
  /\ UNCHANGED notGuard

GuardNext ==
  \/ \E p \in GuardPopups : GuardPresent(p)
  \/ GuardSnoozeFire
  \/ GuardRender
  \/ \E kind \in {"dismiss", "snooze"} : HandlerCall(kind)
  \/ HandlerFinish
  \/ GuardReset


----------------------------------------------------------------------------
(***************************************************************************)
(* Offline cache: the stores alarms, medicines, meetings                   *)
(***************************************************************************)
\* lines 4-10: STORES, the three with keyPath 'id'
CacheKinds == {"alarms", "medicines", "meetings"}
CacheIds == 1..MaxCacheIds
\* an item: its id and the rest of its fields
CacheItems == [id : CacheIds, fields : {"a", "b"}]
\* the lists cacheAlarms, cacheMedicines, cacheMeetings are called with
CacheLists == UNION {[1..n -> CacheItems] : n \in 0..MaxCacheLen}

RangeOf(list) == {list[i] : i \in 1..Len(list)}
DistinctIds(list) == \A i, j \in 1..Len(list) : list[i].id = list[j].id => i = j

RECURSIVE PutEach(_, _)
\* lines 68-70: for (const item of items) store.put(item), the key is item.id
PutEach(store, items) ==
  IF items = <<>> THEN store
  ELSE PutEach(MapSet(store, Head(items).id, Head(items)), Tail(items))

\* mutant: putAll without store.clear()
putAllNoClear(store, items) == PutEach(store, items)

\* lines 60-75: putAll, when its transaction completes
putAll(store, items) == PutEach(EmptyMap, items)

RECURSIVE InKeyOrder(_, _)
\* the records of a store in the order of their keys
InKeyOrder(store, from) ==
  IF from > MaxCacheIds THEN <<>>
  ELSE (IF from \in DOMAIN store THEN <<store[from]>> ELSE <<>>)
         \o InKeyOrder(store, from + 1)

\* lines 77-87: getAll
getAll(store) == InKeyOrder(store, 1)

NoCacheCall == [kind |-> "none", items |-> <<>>, completed |-> FALSE, replaced |-> FALSE]
NoCacheRead == [kind |-> "none", result |-> <<>>, ok |-> FALSE]

CacheInit ==
  /\ dbInstance = FALSE
  /\ cacheStores = [k \in CacheKinds |-> EmptyMap]
  /\ cacheCalls = 0
  /\ lastCacheCall = NoCacheCall
  /\ lastCacheRead = NoCacheRead

\* lines 14-50: initOfflineDB resolved
InitOfflineDB ==
  /\ ~dbInstance
  /\ dbInstance' = TRUE
  /\ UNCHANGED <<cacheStores, cacheCalls, lastCacheCall, lastCacheRead>>
  /\ UNCHANGED notCache

\* lines 91-97, 109-115, 127-133: cacheAlarms, cacheMedicines, cacheMeetings.
\* getDB throws while the database is not open, or the transaction fails
\* (txCompletes = FALSE) and is rolled back: the catch logs and the call
\* returns normally
CacheKind(kind, items, txCompletes) ==
  /\ cacheCalls < MaxCacheCalls
  /\ cacheCalls' = cacheCalls + 1
  /\ cacheStores' =
       IF dbInstance /\ txCompletes
       THEN [cacheStores EXCEPT ![kind] = putAll(@, items)]
       ELSE cacheStores
  /\ lastCacheCall' = [kind |-> kind, items |-> items,
                       completed |-> dbInstance /\ txCompletes,
                       replaced |-> \E i \in DOMAIN cacheStores[kind] :
                                       cacheStores[kind][i] \notin RangeOf(items)]
  /\ lastCacheRead' = NoCacheRead
  /\ UNCHANGED dbInstance
  /\ UNCHANGED notCache

\* lines 99-106, 117-124, 135-142: getCachedAlarms, getCachedMedicines,
\* getCachedMeetings; on any error the result is []
GetCachedKind(kind, requestSucceeds) ==
  /\ lastCacheRead' =
       [kind |-> kind,
        result |-> IF dbInstance /\ requestSucceeds
                   THEN getAll(cacheStores[kind]) ELSE <<>>,
        ok |-> dbInstance /\ requestSucceeds]
  /\ UNCHANGED <<dbInstance, cacheStores, cacheCalls, lastCacheCall>>
  /\ UNCHANGED notCache

CacheNext ==
  \/ InitOfflineDB
  \/ \E k \in CacheKinds, items \in CacheLists, c \in BOOLEAN : CacheKind(k, items, c)
  \/ \E k \in CacheKinds, c \in BOOLEAN : GetCachedKind(k, c)


----------------------------------------------------------------------------
(***************************************************************************)
(* Offline cache: the store of DismissedRecords and its daily purge        *)
(***************************************************************************)
\* the local date of the device as a day number; getTodayDateStr (lines
\* 157-160) formats it zero-padded, so two date strings are equal exactly
\* when the days are
PurgeDays == 0..MaxDay

PurgeInit ==
  /\ purgeStore = {}
  /\ purgeToday = 1
  /\ purgeBefore = {}
  /\ purgeRan = FALSE

\* lines 162-183: markDismissed(type, id, time) puts the record of today
\* under the key `${type}-${id}-${time}-${today}`
MarkDismissed(type, id, time) ==
  /\ Cardinality(purgeStore) < MaxRecords
  /\ purgeStore' = purgeStore \cup
       {[type |-> type, id |-> id, time |-> time, date |-> purgeToday]}
  /\ purgeRan' = FALSE
  /\ UNCHANGED <<purgeToday, purgeBefore>>
  /\ UNCHANGED notPurge

\* the local date of the device changes: midnight passes, or the clock or the
\* time zone of the device is changed
DateChanges(day) ==
  /\ day # purgeToday
  /\ purgeToday' = day
  /\ purgeRan' = FALSE
  /\ UNCHANGED <<purgeStore, purgeBefore>>
  /\ UNCHANGED notPurge

\* line 251: if (record.date !== today) cursor.delete()
IsExpired(record, today) == record.date # today

\* lines 237-264: clearExpiredDismissals. When getDB throws or the request
\* fails, the catch logs and nothing is deleted.
ClearExpiredDismissals(completes) ==
  /\ purgeBefore' = purgeStore
  /\ purgeRan' = TRUE
  /\ purgeStore' = IF completes
                   THEN {r \in purgeStore : ~IsExpired(r, purgeToday)}
                   ELSE purgeStore
  /\ UNCHANGED purgeToday
  /\ UNCHANGED notPurge

PurgeNext ==
  \/ \E k \in CKeys : MarkDismissed(k[1], k[2], currentTime)
  \/ \E day \in PurgeDays : DateChanges(day)
  \/ \E completes \in BOOLEAN : ClearExpiredDismissals(completes)


----------------------------------------------------------------------------
(***************************************************************************)
(* One medicine with doses in adjacent minutes, on a half-minute clock     *)
(***************************************************************************)
\* med.times of the medicine: the minutes of its doses
DoseTimes == {0, 1}
DoseMinute(tick) == tick \div DoseTicksPerMinute
\* line 289: 60000 ms in ticks
DoseDedupWindow == (60 * DoseTicksPerMinute) \div 60
NoDose == -1

DoseInit ==
  /\ doseNow = 0
  /\ doseOpen = FALSE
  /\ dosePolled = FALSE
  /\ doseRef = NoDose
  /\ doseActive = FALSE
  /\ doseDismissed = NoDose
  /\ dosePopup = FALSE
  /\ doseShown = {}
  /\ doseDismissedAt = {}
  /\ dosePushes = 0

\* lines 285-292: isDedupBlocked('medicine', med.id); the key is
\* `${type}-${id}`
DoseDedupBlocked(ref, now) ==
  /\ ref # NoDose
  /\ now - ref < DoseDedupWindow

\* the page is opened: the component mounts with its initial state
DoseOpenPage ==
  /\ ~doseOpen
  /\ doseOpen' = TRUE
  /\ UNCHANGED <<doseNow, dosePolled, doseRef, doseActive, doseDismissed, dosePopup,
                 doseShown, doseDismissedAt, dosePushes>>
  /\ UNCHANGED notDoses

\* lines 587-612 with triggerAlarm, lines 297-318: the medicines branch of
\* one run of the poll
DosePoll ==
  /\ doseOpen
  /\ dosePolled' = TRUE
  /\ IF DoseMinute(doseNow) \in DoseTimes
     THEN IF ~doseActive /\ doseDismissed # DoseMinute(doseNow)
          THEN /\ doseActive' = TRUE
               /\ IF DoseDedupBlocked(doseRef, doseNow)
                  THEN UNCHANGED <<doseRef, dosePopup, doseShown>>
                  ELSE /\ doseRef' = doseNow
                       /\ dosePopup' = TRUE
                       /\ doseShown' = doseShown \cup {DoseMinute(doseNow)}
               /\ UNCHANGED doseDismissed
          ELSE UNCHANGED <<doseActive, doseRef, dosePopup, doseShown, doseDismissed>>
     ELSE /\ doseActive' = IF doseActive /\ ~dosePopup THEN FALSE ELSE doseActive
          /\ doseDismissed' = IF doseDismissed # NoDose /\ doseDismissed # DoseMinute(doseNow)
                            THEN NoDose ELSE doseDismissed
          /\ UNCHANGED <<doseRef, dosePopup, doseShown>>
  /\ UNCHANGED <<doseNow, doseOpen, doseDismissedAt, dosePushes>>
  /\ UNCHANGED notDoses

\* lines 376-401, 660-664: the push message of a dose reaches the page in the
\* minute of the dose
DosePush ==
  /\ doseOpen
  /\ dosePushes < MaxDosePushes
  /\ DoseMinute(doseNow) \in DoseTimes
  /\ dosePushes' = dosePushes + 1
  /\ IF DoseDedupBlocked(doseRef, doseNow)
     THEN UNCHANGED <<doseRef, dosePopup, doseShown>>
     ELSE /\ doseRef' = doseNow
          /\ dosePopup' = TRUE
          /\ doseShown' = doseShown \cup {DoseMinute(doseNow)}
  /\ UNCHANGED <<doseNow, doseOpen, dosePolled, doseActive, doseDismissed,
                 doseDismissedAt>>
  /\ UNCHANGED notDoses

\* lines 403-484, the medicine branch: dismissAlarm
DoseDismiss ==
  /\ dosePopup
  /\ dosePopup' = FALSE
  /\ doseActive' = FALSE
  /\ doseDismissed' = DoseMinute(doseNow)
  /\ doseDismissedAt' = doseDismissedAt \cup {doseNow}
  /\ UNCHANGED <<doseNow, doseOpen, dosePolled, doseRef, doseShown, dosePushes>>
  /\ UNCHANGED notDoses

\* half a minute passes; the poll (every second) has run if the page is open
DoseTick ==
  /\ doseNow < DoseMaxTick
  /\ doseOpen => dosePolled
  /\ doseNow' = doseNow + 1
  /\ dosePolled' = FALSE
  /\ UNCHANGED <<doseOpen, doseRef, doseActive, doseDismissed, dosePopup, doseShown,
                 doseDismissedAt, dosePushes>>
  /\ UNCHANGED notDoses

DosesNext ==
  \/ DoseOpenPage
  \/ DosePoll
  \/ DosePush
  \/ DoseDismiss
  \/ DoseTick


----------------------------------------------------------------------------
(***************************************************************************)
(* The live lists of the page and their offline mirror                     *)
(***************************************************************************)
\* the lists a fetch returns: rows of a table, so their ids differ
LiveLists == {l \in CacheLists : DistinctIds(l)}
\* `undefined` and `null` are the empty tuple, a list l is <<l>>
Undefined == <<>>
NoFetch == [kind |-> "none", list |-> <<>>]
NoPoll == [live |-> Undefined, items |-> <<>>]

MirrorInit ==
  /\ mirrorMounted = FALSE
  /\ liveData = [k \in CacheKinds |-> Undefined]
  /\ cachedState = [k \in CacheKinds |-> Undefined]
  /\ offlineStores = [k \in CacheKinds |-> EmptyMap]
  /\ pendingLoads = {}
  /\ lastFetch = NoFetch
  /\ polled = [k \in CacheKinds |-> NoPoll]
  /\ fetches = 0

\* lines 63-69: the value the component sees: data of useAlarms and
\* useMedicines, and `data: meetings = []`
LiveValue(data, kind) ==
  IF kind = "meetings" /\ data[kind] = Undefined THEN <<(<<>>)>> ELSE data[kind]

\* lines 136-155: the condition a load of the cached list is started under
LoadCondition(data, kind) ==
  IF kind = "meetings"
  THEN LiveValue(data, kind) = Undefined \/ Len(LiveValue(data, kind)[1]) = 0
  ELSE LiveValue(data, kind) = Undefined

\* lines 159-161: effectiveAlarms, effectiveMedicines, effectiveMeetings
effectiveList(data, cached, kind) ==
  LET live == LiveValue(data, kind)
      fallback == IF cached[kind] # Undefined THEN cached[kind][1] ELSE <<>>
  IN IF kind = "meetings"
     THEN IF live # Undefined /\ Len(live[1]) > 0 THEN live[1] ELSE fallback
     ELSE IF live # Undefined THEN live[1] ELSE fallback

\* the page is opened: the component mounts without data, the effects of
\* lines 114-155 run: nothing is cached, the three loads start
MirrorMount ==
  /\ ~mirrorMounted
  /\ mirrorMounted' = TRUE
  /\ pendingLoads' = {k \in CacheKinds : LoadCondition(liveData, k)}
  /\ UNCHANGED <<liveData, cachedState, offlineStores, lastFetch, polled, fetches>>
  /\ UNCHANGED notMirror

\* a fetch of one kind succeeds with `list`; the effects depending on the
\* kind run: lines 114-134 cache the list when it is not empty (the
\* database is open and the transaction completes), lines 136-155 start a
\* load of the cached list under LoadCondition
LiveFetch(kind, list) ==
  /\ mirrorMounted
  /\ fetches < MaxFetches
  /\ fetches' = fetches + 1
  /\ liveData' = [liveData EXCEPT ![kind] = <<list>>]
  /\ offlineStores' =
       IF Len(list) > 0
       THEN [offlineStores EXCEPT ![kind] = putAll(@, list)]
       ELSE offlineStores
  /\ pendingLoads' =
       IF LoadCondition(liveData', kind) THEN pendingLoads \cup {kind}
       ELSE pendingLoads
  /\ lastFetch' = [kind |-> kind, list |-> list]
  /\ UNCHANGED <<mirrorMounted, cachedState, polled>>
  /\ UNCHANGED notMirror

\* lines 138, 145, 152: getCachedX().then(setCachedX) resolves
LoadResolves(kind) ==
  /\ mirrorMounted
  /\ kind \in pendingLoads
  /\ pendingLoads' = pendingLoads \ {kind}
  /\ cachedState' = [cachedState EXCEPT ![kind] = <<getAll(offlineStores[kind])>>]
  /\ UNCHANGED <<mirrorMounted, liveData, offlineStores, lastFetch, polled, fetches>>
  /\ UNCHANGED notMirror

\* lines 547-654: one run of the poll walks the three effective lists
MirrorPoll ==
  /\ mirrorMounted
  /\ polled' = [k \in CacheKinds |->
                  [live |-> liveData[k],
                   items |-> effectiveList(liveData, cachedState, k)]]
  /\ UNCHANGED <<mirrorMounted, liveData, cachedState, offlineStores, pendingLoads,
                 lastFetch, fetches>>
  /\ UNCHANGED notMirror

\* the page is closed: the state of the component is gone, the stores stay
MirrorClose ==
  /\ mirrorMounted
  /\ mirrorMounted' = FALSE
  /\ liveData' = [k \in CacheKinds |-> Undefined]
  /\ cachedState' = [k \in CacheKinds |-> Undefined]
  /\ pendingLoads' = {}
  /\ polled' = [k \in CacheKinds |-> NoPoll]
  /\ UNCHANGED <<offlineStores, lastFetch, fetches>>
  /\ UNCHANGED notMirror

MirrorNext ==
  \/ MirrorMount
  \/ \E k \in CacheKinds, list \in LiveLists : LiveFetch(k, list)
  \/ \E k \in CacheKinds : LoadResolves(k)
  \/ MirrorPoll
  \/ MirrorClose


----------------------------------------------------------------------------
(***************************************************************************)
(* One schedule item of any kind at one instant, under both evaluators     *)
(***************************************************************************)
RuleTimes == {HHmm(0), HHmm(1), HHmmss(0), HHmmss(1)}
\* rows of the three tables, as records of one shape: `active` is isActive
\* of an alarm or a medicine and enabled of a meeting
RuleAlarms ==
  [kind : {"alarm"}, time : RuleTimes, date : {"", "d1", "d2"},
   days : SUBSET {"Mon", "Tue"}, times : {<<>>}, active : BOOLEAN]
RuleMedicines ==
  [kind : {"medicine"}, time : {HHmm(0)}, date : {""}, days : {{}},
   times : UNION {[1..n -> RuleTimes] : n \in 0..MaxTimes}, active : BOOLEAN]
RuleMeetings ==
  [kind : {"meeting"}, time : RuleTimes, date : {"d1", "d2"}, days : {{}},
   times : {<<>>}, active : BOOLEAN]
RuleItems == RuleAlarms \cup RuleMedicines \cup RuleMeetings
NoItem == [kind |-> "none", time |-> HHmm(0), date |-> "", days |-> {},
           times |-> <<>>, active |-> FALSE]
Unset == -1

RuleInit ==
  /\ ruleItem = NoItem
  /\ ruleInstant = [date |-> "d1", hm |-> 0]
  /\ ruleServer = Unset
  /\ ruleClient = Unset

\* global-alarm-handler.tsx line 588: med.times?.includes(currentTime)
ClientMedicineDue(med, atTime) ==
  \E i \in 1..Len(med.times) : med.times[i] = atTime

\* global-alarm-handler.tsx lines 615-620
ClientMeetingDue(meeting, enabled, atTime, atDate) ==
  /\ enabled
  /\ meeting.time = atTime
  /\ meeting.date = atDate

\* a row and an instant to evaluate it at
RuleChoose(item, instant) ==
  /\ ruleItem = NoItem
  /\ ruleItem' = item
  /\ ruleInstant' = instant
  /\ UNCHANGED <<ruleServer, ruleClient>>
  /\ UNCHANGED notRules

\* alarmScheduler.ts lines 28-117: the number of due-events one run of
\* checkAndSendAlarms at the instant hands to sendPushNotification for the
\* row; the three selects take the rows with isActive / enabled true
RuleServer ==
  /\ ruleItem # NoItem
  /\ ruleServer = Unset
  /\ ruleServer' =
       LET time == HHmm(ruleInstant.hm)
           date == ruleInstant.date
       IN IF ~ruleItem.active THEN 0
          ELSE CASE ruleItem.kind = "alarm" ->
                      IF ServerAlarmShouldTrigger(ruleItem, time, DayOf(date), date)
                      THEN 1 ELSE 0
                 [] ruleItem.kind = "medicine" ->
                      Cardinality(ServerMedicineDueEntries(ruleItem, time))
                 [] OTHER ->
                      IF ServerMeetingShouldTrigger(ruleItem, time, date) THEN 1 ELSE 0
  /\ UNCHANGED <<ruleItem, ruleInstant, ruleClient>>
  /\ UNCHANGED notRules

\* global-alarm-handler.tsx lines 551-620: whether one run of the poll at
\* the instant finds the row due (1) or not (0)
RuleClient ==
  /\ ruleItem # NoItem
  /\ ruleClient = Unset
  /\ ruleClient' =
       LET atTime == HHmm(ruleInstant.hm)
           atDate == ruleInstant.date
           due ==
             CASE ruleItem.kind = "alarm" ->
                    ClientAlarmDue(ruleItem, ruleItem.active, atTime,
                                   DayOf(atDate), atDate)
               [] ruleItem.kind = "medicine" ->
                    ClientMedicineDue(ruleItem, atTime)
               [] OTHER ->
                    ClientMeetingDue(ruleItem, ruleItem.active, atTime, atDate)
       IN IF due THEN 1 ELSE 0
  /\ UNCHANGED <<ruleItem, ruleInstant, ruleServer>>
  /\ UNCHANGED notRules

RulesNext ==
  \/ \E item \in RuleItems, instant \in Instants : RuleChoose(item, instant)
  \/ RuleServer
  \/ RuleClient


----------------------------------------------------------------------------
(***************************************************************************)
(* Presentations of different items and their duration timers              *)
(***************************************************************************)
\* the items: each is presented at most once; item.type is vibration or
\* speaking (an alarm with textToSpeak, a medicine, a meeting)
RingItems == 1..MaxRingItems
RingTypes == {"vibration", "speaking"}
NoRing == 0

RingInit ==
  /\ ringNow = 0
  /\ ringPresented = {}
  /\ ringPopup = NoRing
  /\ ringVibration = NoRing
  /\ ringSpeech = NoRing
  /\ ringTimers = {}
  /\ ringStops = {}
  /\ ringClosed = {}

\* lines 297-374: triggerAlarm of an item not presented before (its dedup
\* key is free); the setTimeout of lines 334-339 or 364-373 is armed and kept
\* by nobody
RingTrigger(item, type) ==
  /\ item \notin ringPresented
  /\ ringPresented' = ringPresented \cup {item}
  /\ ringPopup' = item
  /\ IF type = "vibration"
     THEN /\ ringVibration' = item
          /\ UNCHANGED ringSpeech
     ELSE /\ ringSpeech' = item
          /\ UNCHANGED ringVibration
  /\ ringTimers' = ringTimers \cup
        {[what |-> type, due |-> ringNow + RingDuration, owner |-> item]}
  /\ UNCHANGED <<ringNow, ringStops, ringClosed>>
  /\ UNCHANGED notRing

\* lines 403-484: dismissAlarm: speech and vibration are stopped, the popup
\* is cleared; no duration timer is cleared
RingDismiss ==
  /\ ringPopup # NoRing
  /\ ringSpeech' = NoRing
  /\ ringVibration' = NoRing
  /\ ringPopup' = NoRing
  /\ ringClosed' = ringClosed \cup {<<ringPopup, "dismiss">>}
  /\ UNCHANGED <<ringNow, ringPresented, ringTimers, ringStops>>
  /\ UNCHANGED notRing

\* lines 486-517: snoozeAlarm, up to the arming of its timer
RingSnooze ==
  /\ ringPopup # NoRing
  /\ ringSpeech' = NoRing
  /\ ringVibration' = NoRing
  /\ ringPopup' = NoRing
  /\ ringClosed' = ringClosed \cup {<<ringPopup, "snooze">>}
  /\ UNCHANGED <<ringNow, ringPresented, ringTimers, ringStops>>
  /\ UNCHANGED notRing

\* lines 334-339: the vibration timer clears whatever interval
\* vibrateIntervalRef holds; lines 364-373: the speech timer calls
\* TextToSpeech.stop() and speechSynthesis.cancel(), which end whatever is
\* being spoken
RingTimerFire ==
  /\ \E timer \in ringTimers :
       /\ timer.due <= ringNow
       /\ ringTimers' = ringTimers \ {timer}
       /\ IF timer.what = "vibration"
          THEN /\ ringVibration' = NoRing
               /\ ringStops' =
                    IF ringVibration # NoRing
                    THEN ringStops \cup {[owner |-> timer.owner, stopped |-> ringVibration]}
                    ELSE ringStops
               /\ UNCHANGED ringSpeech
          ELSE /\ ringSpeech' = NoRing
               /\ ringStops' =
                    IF ringSpeech # NoRing
                    THEN ringStops \cup {[owner |-> timer.owner, stopped |-> ringSpeech]}
                    ELSE ringStops
               /\ UNCHANGED ringVibration
  /\ UNCHANGED <<ringNow, ringPresented, ringPopup, ringClosed>>
  /\ UNCHANGED notRing

\* time passes; timers fire when they are due
RingTick ==
  /\ ringNow < RingMaxTick
  /\ \A timer \in ringTimers : timer.due > ringNow
  /\ ringNow' = ringNow + 1
  /\ UNCHANGED <<ringPresented, ringPopup, ringVibration, ringSpeech, ringTimers,
                 ringStops, ringClosed>>
  /\ UNCHANGED notRing

RingNext ==
  \/ \E item \in RingItems, type \in RingTypes : RingTrigger(item, type)
  \/ RingDismiss
  \/ RingSnooze
  \/ RingTimerFire
  \/ RingTick

----------------------------------------------------------------------------
(***************************************************************************)
(* The specifications                                                      *)
(***************************************************************************)
PushIdle ==
  /\ pushSubscriptions = {}
  /\ pushPc = "idle"
  /\ pushUser = "u1"
  /\ subscriptions = {}
  /\ pendingSubs = {}
  /\ success = 0
  /\ failed = 0
  /\ outcomeOf = [i \in RowIds |-> NoAttempt]
  /\ regAtLoad = {}
  /\ dispatches = 0

StoreIdle ==
  /\ alarmActive = [i \in AlarmIds |-> TRUE]
  /\ medActive = [i \in MedicineIds |-> TRUE]
  /\ meetingEnabled = [i \in MeetingIds |-> TRUE]

EvalIdle ==
  /\ evAlarm = [time |-> HHmm(0), date |-> "", days |-> {}, isActive |-> FALSE]
  /\ evInstant = [date |-> Today, hm |-> 0]
  /\ evServer = "unset"
  /\ evClient = "unset"

\* the scheduler process at some tick of its clock
SchedAt ==
  /\ sNow \in 0..SMaxTick
  /\ schedulerInterval = sNow
  /\ starts = 1
  /\ redundantStart = FALSE
  /\ sent = ZeroCounts
  /\ sentRun = ZeroCounts

RestIdle == TickInit /\ MountInit /\ RegistryInit /\ DevicesInit /\ SignalInit
            /\ GuardInit /\ CacheInit /\ PurgeInit /\ DoseInit /\ MirrorInit /\ RuleInit
            /\ RingInit

InitPush == PushInit /\ StoreIdle /\ SchedInit /\ EvalIdle /\ ClientInit /\ RestIdle
InitSched == PushIdle /\ StoreInit /\ SchedInit /\ EvalIdle /\ ClientInit /\ RestIdle
InitEval == PushIdle /\ StoreIdle /\ SchedInit /\ EvalInit /\ ClientInit /\ RestIdle
InitClient == PushIdle /\ StoreIdle /\ SchedInit /\ EvalIdle /\ ClientInit /\ RestIdle
InitTick == PushIdle /\ StoreInit /\ SchedAt /\ EvalIdle /\ ClientInit /\ RestIdle
InitMount == PushIdle /\ StoreIdle /\ SchedInit /\ EvalIdle /\ ClientInit /\ RestIdle
InitReplay == PushIdle /\ StoreIdle /\ SchedInit /\ EvalIdle /\ ClientInit /\ RestIdle
InitRegistry == PushIdle /\ StoreIdle /\ SchedInit /\ EvalIdle /\ ClientInit /\ RestIdle
InitDevices == PushIdle /\ StoreIdle /\ SchedInit /\ EvalIdle /\ ClientInit /\ RestIdle
InitSignal == PushIdle /\ StoreIdle /\ SchedInit /\ EvalIdle /\ ClientInit /\ RestIdle
InitGuard == PushIdle /\ StoreIdle /\ SchedInit /\ EvalIdle /\ ClientInit /\ RestIdle
InitCache == PushIdle /\ StoreIdle /\ SchedInit /\ EvalIdle /\ ClientInit /\ RestIdle
InitPurge == PushIdle /\ StoreIdle /\ SchedInit /\ EvalIdle /\ ClientInit /\ RestIdle
InitDoses == PushIdle /\ StoreIdle /\ SchedInit /\ EvalIdle /\ ClientInit /\ RestIdle
InitMirror == PushIdle /\ StoreIdle /\ SchedInit /\ EvalIdle /\ ClientInit /\ RestIdle
InitRules == PushIdle /\ StoreIdle /\ SchedInit /\ EvalIdle /\ ClientInit /\ RestIdle
InitFlags == PushIdle /\ StoreInit /\ SchedInit /\ EvalIdle /\ ClientInit /\ RestIdle
InitRing == PushIdle /\ StoreIdle /\ SchedInit /\ EvalIdle /\ ClientInit /\ RestIdle

SpecPush == InitPush /\ [][PushNext]_vars
SpecSched == InitSched /\ [][SchedNext]_vars
SpecEval == InitEval /\ [][EvalNext]_vars
SpecClient == InitClient /\ [][ClientNext]_vars
SpecTick == InitTick /\ [][TickNext]_vars
SpecMount == InitMount /\ [][MountNext]_vars
SpecReplay == InitReplay /\ [][ReplayNext]_vars
SpecRegistry == InitRegistry /\ [][RegistryNext]_vars
SpecDevices == InitDevices /\ [][DevicesNext]_vars /\ DevicesFair
SpecSignal == InitSignal /\ [][SignalNext]_vars
SpecGuard == InitGuard /\ [][GuardNext]_vars
SpecCache == InitCache /\ [][CacheNext]_vars
SpecPurge == InitPurge /\ [][PurgeNext]_vars
SpecDoses == InitDoses /\ [][DosesNext]_vars
SpecMirror == InitMirror /\ [][MirrorNext]_vars
SpecRules == InitRules /\ [][RulesNext]_vars
SpecFlags == InitFlags /\ [][FlagsNext]_vars
SpecRing == InitRing /\ [][RingNext]_vars

----------------------------------------------------------------------------
(***************************************************************************)
(* Claims on the push dispatcher (SpecPush)                                *)
(***************************************************************************)
Delivered == {s \in subscriptions : outcomeOf[s.id] = 201}
NotDelivered == {s \in subscriptions : outcomeOf[s.id] \in StatusCodes \ {201}}
SignalledGone == {s \in subscriptions : outcomeOf[s.id] \in {404, 410}}

\* C2: when sendPushNotification returns, success is the number of endpoints
\* whose delivery succeeded, failed the number whose delivery failed (gone or
\* transient), and the table is the table at load minus exactly the rows whose
\* delivery signalled gone (404/410); rows that failed otherwise are still there.
C2_CountsAndPrune ==
  pushPc = "returned" =>
    /\ success = Cardinality(Delivered)
    /\ failed = Cardinality(NotDelivered)
    /\ pushSubscriptions = regAtLoad \ SignalledGone

\* one ok, one gone, one timed out: {success: 1, failed: 2}, two rows left
C2_Witness ==
  /\ pushPc = "returned"
  /\ success = 1
  /\ failed = 2
  /\ Cardinality(SignalledGone) = 1
  /\ \E s \in subscriptions : outcomeOf[s.id] = 0
  /\ Cardinality(pushSubscriptions) = Cardinality(regAtLoad) - 1

\* C10: sendPushNotification never leaves by exception, whatever fails (the
\* select of the rows, a delivery, the delete of a gone row), and the counts it
\* returns sum to the number of rows it loaded.
C10_NeverThrows ==
  /\ pushPc # "threw"
  /\ (pushPc = "returned" => success + failed = Cardinality(subscriptions))

----------------------------------------------------------------------------
(***************************************************************************)
(* Claims on the evaluators (SpecEval)                                     *)
(***************************************************************************)
\* the rule for a recurring alarm: the instant's weekday is one of its days
\* and the instant's HH:mm is the alarm's
RecurringRule == DayOf(evInstant.date) \in evAlarm.days /\ evAlarm.time.hm = evInstant.hm

\* C6: for an (active) alarm with a non-empty set of days, the server evaluator
\* and the client poll evaluator each say "due" exactly when the weekday is in
\* the set and HH:mm matches, whatever the alarm's date field holds.
C6_RecurringIgnoresDate ==
  (evAlarm.days # {} /\ evAlarm.isActive) =>
    /\ (evServer # "unset" => ((evServer = "due") <=> RecurringRule))
    /\ (evClient # "unset" => ((evClient = "due") <=> RecurringRule))

(***************************************************************************)
(* Claims on the server scheduler (SpecSched)                              *)
(***************************************************************************)
EntryActive(e) ==
  CASE e[1] = "alarm" -> alarmActive[e[2]]
    [] e[1] = "medicine" -> medActive[e[2]]
    [] OTHER -> meetingEnabled[e[2]]

\* the occurrence rules (date alarm, recurring alarm, alarm with neither,
\* medicine entry, meeting) on the day the scheduler's clock runs in
DueByRule(e, m) ==
  CASE e[1] = "alarm" ->
         LET a == CHOOSE x \in Alarms : x.id = e[2] IN
         /\ a.time.hm = m
         /\ IF a.date # "" THEN a.date = Today
            ELSE IF a.days # {} THEN DayOf(Today) \in a.days ELSE TRUE
    [] e[1] = "medicine" ->
         LET d == CHOOSE x \in Medicines : x.id = e[2] IN d.times[e[3]].hm = m
    [] OTHER ->
         LET g == CHOOSE x \in Meetings : x.id = e[2] IN
         g.time.hm = m /\ g.date = Today

\* C8 as claimed: since the first boot, for every active item and every minute
\* in which it is due, exactly one due-event is handed to the dispatcher,
\* whatever the starts, timer wakes and restarts: never two, and one once the
\* minute is over.
C8_ExactlyOncePerOccurrence ==
  \A e \in ItemEntries, m \in Minutes :
    (starts > 0 /\ EntryActive(e) /\ DueByRule(e, m)) =>
      /\ sent[<<e, m>>] <= 1
      /\ (m < sNow \div TicksPerMinute => sent[<<e, m>>] = 1)

\* C8 as amended: between one start of the scheduler and its next stop (or
\* the end of the process) no occurrence is handed to the dispatcher twice,
\* however often startAlarmScheduler is called and whenever the timer wakes.
C8_AtMostOncePerRun == \A k \in DOMAIN sentRun : sentRun[k] <= 1

\* an occurrence fired once in this run, in which a second start call was
\* refused, and twice in all because an earlier run had fired it too
C8_Witness ==
  \E k \in DOMAIN sentRun : sentRun[k] = 1 /\ sent[k] = 2 /\ redundantStart

\* C9: once the scheduler has handed a date alarm (one-shot) to the
\* dispatcher, the alarm's isActive is false.
C9_OneShotDeactivated ==
  \A a \in Alarms, m \in Minutes :
    (a.date # "" /\ sent[<<(<<"alarm", a.id, 1>>), m>>] > 0) => ~alarmActive[a.id]

----------------------------------------------------------------------------
(***************************************************************************)
(* Claims about the client trigger coordinator                             *)
(***************************************************************************)
PollAndPush == {"poll", "push"}

\* C1: when two due-events of one dedup key reach triggerAlarm through
\* different paths (the poll and a push message) less than 60 s apart, only
\* the first is presented: any two presentations of one key, one from the
\* poll and one from a push, are at least the dedup window apart.
C1_OnePresentationPerKey ==
  \A k \in CKeys :
    ({prevShown[k].path, lastShown[k].path} = PollAndPush)
      => lastShown[k].t - prevShown[k].t >= DedupWindow

\* a push was presented and the poll's due-event of the same key, less than
\* 60 s later, was discarded
C1_Witness ==
  \E k \in CKeys :
    /\ lastShown[k].path = "push"
    /\ lastArrival[k].path = "poll"
    /\ ~lastArrival[k].shown
    /\ lastArrival[k].t - lastShown[k].t < DedupWindow

OneShotKeys ==
  {<<"alarm", a.id>> : a \in {x \in Alarms : x.date # ""}}
  \cup {<<"meeting", g.id>> : g \in Meetings}

\* C3: a one-shot item (an alarm with a date, a meeting) whose popup the
\* user has dismissed is inactive in the store afterwards.
C3_DismissedOneShotInactive ==
  \A k \in dismissedOnce \cap OneShotKeys :
    IF k[1] = "alarm" THEN ~alarmActive[k[2]] ELSE ~meetingEnabled[k[2]]

\* C4: when the timer of snoozeAlarm(5) fires, the popup it opens shows the
\* payload that was snoozed: the same id, kind, title and text.
C4_SnoozeSamePayload ==
  (snoozeFired.data # NoPopup) =>
     /\ snoozeFired.popup.id = snoozeFired.data.id
     /\ snoozeFired.popup.type = snoozeFired.data.type
     /\ snoozeFired.popup.title = snoozeFired.data.title
     /\ snoozeFired.popup.message = snoozeFired.data.message

\* C5: when dismissAlarm completes nothing is playing any more: no audio
\* element, no speech loop, no vibration interval.
C5_DismissStopsEverything ==
  [][(handlerPc = "dismissing" /\ handlerPc' = "cooldown")
       => (audios' = {} /\ ~isSpeakingRef' /\ ~vibrateIntervalRef')]_vars

RecurringAlarms == {a \in Alarms : a.date = ""}
DueMinuteOf(alarm) == alarm.time.hm

\* C7 as stated: for a recurring alarm the poll raises exactly one due-event
\* in the due minute, and the first poll tick of the following minute finds
\* its entry gone from the active set.
C7_ExactlyOnePerDueMinute ==
  \A a \in RecurringAlarms :
    /\ (cNow \div CTicksPerMinute > DueMinuteOf(a))
         => pollRaised[<<"alarm", a.id>>, DueMinuteOf(a)] = 1
    /\ (pollSaw.at = cNow /\ cNow \div CTicksPerMinute = DueMinuteOf(a) + 1)
         => a.id \notin activeAlarms

\* C7 as the code has it: the poll raises at most one due-event per minute,
\* none outside the due minute, and none in the due minute only if the user
\* dismissed the alarm; a poll tick outside the due minute that runs while no
\* popup is open leaves the entry out of the active set.
C7_AtMostOnePerDueMinute ==
  \A a \in RecurringAlarms :
    /\ \A m \in CMinutes :
         /\ pollRaised[<<"alarm", a.id>>, m] <= 1
         /\ (m # DueMinuteOf(a)) => pollRaised[<<"alarm", a.id>>, m] = 0
    /\ (/\ cNow \div CTicksPerMinute > DueMinuteOf(a)
        /\ pollRaised[<<"alarm", a.id>>, DueMinuteOf(a)] = 0)
         => <<"alarm", a.id>> \in dismissedOnce
    /\ (/\ pollSaw.at = cNow
        /\ ~pollSaw.popup
        /\ cNow \div CTicksPerMinute # DueMinuteOf(a))
         => a.id \notin activeAlarms

\* the poll raised the alarm once, the user snoozed it, and the first poll
\* tick of the following minute took the entry out of the active set
C7_Witness ==
  \E a \in RecurringAlarms :
    /\ pollRaised[<<"alarm", a.id>>, DueMinuteOf(a)] = 1
    /\ \E timer \in timers :
         timer.alarmData.type = "alarm" /\ timer.alarmData.id = a.id
    /\ pollSaw.at = cNow
    /\ cNow \div CTicksPerMinute = DueMinuteOf(a) + 1
    /\ a.id \notin activeAlarms

----------------------------------------------------------------------------
(***************************************************************************)
(* Claims on one run of checkAndSendAlarms (SpecTick)                      *)
(***************************************************************************)
\* C11: an error while one item is evaluated or dispatched does not stop the
\* run: when the run is over, whether or not a dispatch rejected, every
\* entry that was due when it began has been handed to the dispatcher.
C11_RunHandsEveryDueEntry ==
  (tickPc \in {"done", "caught"}) => tickDue \subseteq tickHanded

----------------------------------------------------------------------------
(***************************************************************************)
(* Claims on the dispatch loop (SpecPush)                                  *)
(***************************************************************************)
\* C12: an endpoint whose delivery fails or never completes does not keep
\* the other endpoints of the owner from their delivery attempt: when the
\* call has returned, thrown or is stuck in an attempt, every row it loaded
\* has had its attempt started.
C12_EveryEndpointAttempted ==
  (pushPc \in {"returned", "threw", "hung"})
     => \A s \in subscriptions : outcomeOf[s.id] # NoAttempt

----------------------------------------------------------------------------
(***************************************************************************)
(* Claims on the client across page reloads (SpecMount)                    *)
(***************************************************************************)
\* C13: once the user has dismissed an occurrence, no trigger of the poll or
\* of a push presents it again in the same minute, a page reload in between
\* or not: no popup is open for an item that has a DismissedRecord of the
\* current minute.
C13_NoPresentationAfterDismissal ==
  \A r \in dismissedStore :
    (r.time = currentTime /\ r.date = currentDate)
      => ~(/\ activeAlarmPopup # NoPopup
           /\ activeAlarmPopup.type = r.type
           /\ activeAlarmPopup.id = r.id
           /\ lastShown[<<r.type, r.id>>].path \in PollAndPush)

----------------------------------------------------------------------------
(***************************************************************************)
(* Claims on the device registry (SpecRegistry)                            *)
(***************************************************************************)
\* C14: the registry never holds two rows with the same endpoint, under any
\* interleaving of subscribe requests
C14_EndpointUnique ==
  \A r1, r2 \in registry : r1.endpoint = r2.endpoint => r1 = r2

----------------------------------------------------------------------------
(***************************************************************************)
(* Claims on two devices of one user (SpecDevices)                         *)
(***************************************************************************)
\* C15: when an occurrence presented on two devices is dismissed on one of
\* them, the presentation on the other device is eventually cleared
C15_DismissClearsOtherDevice ==
  \A e \in Devices, k \in DeviceKeys :
    (<<e, k>> \in dismissedElsewhere) ~> (devicePopup[e].key # k)

----------------------------------------------------------------------------
(***************************************************************************)
(* Claims on the replay of a deferred event (SpecReplay)                   *)
(***************************************************************************)
\* C16: a deferred event is presented at most once in total, whatever mounts,
\* reloads and re-runs of the effect follow, and a stored record is replayed
\* only while it is less than 5 minutes old
C16_ReplayedAtMostOnce ==
  /\ replayShown <= 1
  /\ \A age \in replayAges : age < ReplayValidity

----------------------------------------------------------------------------
(***************************************************************************)
(* Claims on the signal of a presentation (SpecSignal)                     *)
(***************************************************************************)
\* C17: when the audio or speech of a presentation has failed and the chain
\* of fallbacks has run to its end without a dismissal, some signal was
\* produced (a tone at the least, where the platform can generate one); and
\* after a dismiss or snooze call the popup is closed
C17_SomeSignalProduced ==
  /\ (sigPc = "done" /\ ~sigCleared /\ env.AudioContext /\ speaks > 0)
       => signals # {}
  /\ sigCleared => ~sigPopup

----------------------------------------------------------------------------
(***************************************************************************)
(* Claims on the re-entrancy guard (SpecGuard)                             *)
(***************************************************************************)
\* C18: however many dismissAlarm and snoozeAlarm calls are made on one popup
\* while a call is running or its guard window is open, their combined effect
\* is that of one call: at most one DismissalRecord written, at most one
\* deactivation request sent, at most one snooze timer set
C18_OneCallTakesEffect ==
  /\ gEffects.records + gEffects.snoozeTimers <= 1
  /\ gEffects.deactivations <= 1
  /\ Cardinality(gInFlight) <= 1

\* a second call was made and turned away, and the first call took effect
C18_Witness ==
  /\ gBlocked > 0
  /\ gInFlight = {}
  /\ gEffects.records + gEffects.snoozeTimers = 1

----------------------------------------------------------------------------
(***************************************************************************)
(* Claims on the offline cache (SpecCache)                                 *)
(***************************************************************************)
\* what was read back is the set of items of the list cached last
ReadBackEqualsCached ==
  RangeOf(lastCacheRead.result) = RangeOf(lastCacheCall.items)

----------------------------------------------------------------------------
(***************************************************************************)
(* Claims on the purge of DismissedRecords (SpecPurge)                     *)
(***************************************************************************)
\* C20: clearExpiredDismissals removes exactly the records dated before
\* today: every record of today is kept, every earlier record is removed,
\* and no other record is changed
C20_RemovesOnlyEarlier ==
  purgeRan => purgeStore = {r \in purgeBefore : ~(r.date < purgeToday)}

----------------------------------------------------------------------------
(***************************************************************************)
(* Claims on doses in adjacent minutes (SpecDoses)                         *)
(***************************************************************************)
\* C21: the dose of the later minute is not lost to what the earlier dose
\* left behind: when the popup of the first dose was dismissed in its minute
\* and the page was open for the whole of the second minute, a presentation
\* began in the second minute
C21_LaterDoseNotLost ==
  (/\ DoseMinute(doseNow) > 1
   /\ doseOpen
   /\ 0 \in doseShown
   /\ \E t \in doseDismissedAt : DoseMinute(t) = 0)
    => 1 \in doseShown

----------------------------------------------------------------------------
(***************************************************************************)
(* Claims on the live lists and their offline mirror (SpecMirror)          *)
(***************************************************************************)
\* C22: after every successful fetch of a kind the offline store of the kind
\* holds exactly the fetched list, also when the fetched list is empty
C22_CacheEqualsFetched ==
  lastFetch.kind # "none" =>
    RangeOf(getAll(offlineStores[lastFetch.kind])) = RangeOf(lastFetch.list)

\* C23: a poll that runs while the live data of a kind is present (an empty
\* list too) walks the live list of the kind and nothing else
C23_PollWalksLiveList ==
  \A k \in CacheKinds :
    polled[k].live # Undefined => polled[k].items = polled[k].live[1]

----------------------------------------------------------------------------
(***************************************************************************)
(* Claims on the evaluators over all kinds (SpecRules)                     *)
(***************************************************************************)
HmMatch == ruleItem.time.hm = ruleInstant.hm
DateMatch == ruleItem.date = ruleInstant.date
WeekdayMatch == DayOf(ruleInstant.date) \in ruleItem.days

\* C24: for an active row and an instant the scheduler finds: an alarm with a
\* date due iff date and HH:mm match; an alarm with days due iff the weekday
\* is among them and HH:mm matches; an alarm with neither due iff HH:mm
\* matches; a medicine due once per entry of its times whose HH:mm matches; a
\* meeting due iff date and HH:mm match; seconds of stored times play no part
C24_ServerMatchesRules ==
  (ruleServer # Unset /\ ruleItem.active) =>
    CASE ruleItem.kind = "alarm" ->
           /\ ruleItem.date # "" => (ruleServer = 1 <=> (DateMatch /\ HmMatch))
           /\ ruleItem.days # {} => (ruleServer = 1 <=> (WeekdayMatch /\ HmMatch))
           /\ (ruleItem.date = "" /\ ruleItem.days = {}) => (ruleServer = 1 <=> HmMatch)
      [] ruleItem.kind = "medicine" ->
           ruleServer = Cardinality({i \in 1..Len(ruleItem.times) :
                                       ruleItem.times[i].hm = ruleInstant.hm})
      [] OTHER -> (ruleServer = 1 <=> (DateMatch /\ HmMatch))

\* C25: for every row and instant the poll finds the row due exactly when the
\* scheduler hands on at least one due-event for it
C25_EvaluatorsAgree ==
  (ruleServer # Unset /\ ruleClient # Unset) => (ruleClient = 1 <=> ruleServer > 0)

----------------------------------------------------------------------------
(***************************************************************************)
(* Claims on rows with any flags (SpecFlags)                               *)
(***************************************************************************)
\* C26: the poll never presents a row that is deactivated: whenever a run of
\* the poll opens the popup of an item, the alarm or medicine has isActive
\* true, the meeting has enabled true
C26_DeactivatedNeverPolled ==
  [][\A k \in CKeys :
       (lastShown'[k] # lastShown[k] /\ lastShown'[k].path = "poll")
         => EntryActive(k)]_vars

----------------------------------------------------------------------------
(***************************************************************************)
(* Claims on presentations of different items (SpecClient)                 *)
(***************************************************************************)
\* the item a popup belongs to
PopupKey(p) == IF p = NoPopup THEN <<"none", 0>> ELSE <<p.type, p.id>>
\* dismissAlarm or snoozeAlarm completes in this step
HandlerCompletes == handlerPc \in {"dismissing", "snoozing"} /\ handlerPc' = "cooldown"

\* C27: every item triggerAlarm presents in a step has the popup after the
\* step, also when two items are presented in one run of the poll, and the
\* popup of an item (with its audio handle) goes away only when a dismiss or
\* snooze completes, never because another item is triggered
C27_EachItemKeepsItsPopup ==
  [][/\ \A k \in CKeys :
          (lastShown'[k] # lastShown[k] /\ lastShown'[k].shown)
            => PopupKey(activeAlarmPopup') = k
     /\ (activeAlarmPopup # NoPopup
         /\ PopupKey(activeAlarmPopup') # PopupKey(activeAlarmPopup))
          => HandlerCompletes]_vars

\* C28: when dismissAlarm or snoozeAlarm completes while the popup on the
\* page is that of another item than the one it was started for (the item was
\* triggered during the await), that popup stays
C28_LateTriggerKeepsPopup ==
  [][(/\ HandlerCompletes
      /\ activeAlarmPopup # NoPopup
      /\ PopupKey(activeAlarmPopup) # PopupKey(captured.popup))
       => activeAlarmPopup' = activeAlarmPopup]_vars

\* C30: when the dismiss or snooze of the popup of one item completes, the
\* pending snooze timers of all other items are as before
C30_OtherSnoozeTimersKept ==
  [][HandlerCompletes =>
       \A timer \in timers :
         PopupKey(timer.alarmData) # PopupKey(captured.popup) => timer \in timers']_vars

----------------------------------------------------------------------------
(***************************************************************************)
(* Claims on duration timers (SpecRing)                                    *)
(***************************************************************************)
\* C29: a duration timer stops only the speech or vibration of the
\* presentation that armed it: the timer of an earlier presentation, already
\* dismissed or snoozed, never stops the sound of a later one
C29_TimerStopsOwnSoundOnly ==
  \A s \in ringStops :
    (\E how \in {"dismiss", "snooze"} : <<s.owner, how>> \in ringClosed)
      => s.owner = s.stopped

====
